---- MODULE Spec2Model ----
(***************************************************************************)
(* A model of the UAVGPT mission pipeline: dsl_to_json (dsl_to_json.py)    *)
(* followed by run_validation (validate_mission.py), in the order          *)
(* testing_script.py calls them (Spec), and of compose_and_send_mavlink    *)
(* (json_to_mavlink.py) called on a mission document (ComposeSpec) and     *)
(* called twice on documents that differ in their control clauses          *)
(* (TwinSpec); and of interactive_session (interactive_pipeline.py), with  *)
(* the scripts of the text generator classified by what dsl_to_json and    *)
(* run_validation do with them (SessionSpec).                              *)
(*                                                                         *)
(* Text is modelled character by character: a token is a sequence of       *)
(* one-character strings, an instruction is the sequence of its tokens     *)
(* (what cmd.split() returns) and a script is the sequence of its          *)
(* ';'-separated segments (an empty segment is whitespace only).           *)
(* Python's 0-based token index idx is the 1-based position idx + 1 here.  *)
(***************************************************************************)
EXTENDS Integers, Sequences, FiniteSets, TLC

VARIABLES
    dsl,            \* the script handed to dsl_to_json
    pc,             \* position of the pipeline
    exc,            \* the exception that ended a function, or "none"
    cmd_i,          \* dsl_to_json: position of the for loop in raw_cmds
    steps,          \* dsl_to_json: steps
    used_drones,    \* dsl_to_json: used_drones
    state_counter,  \* dsl_to_json: state_counter
    diagnostics,    \* the warnings dsl_to_json printed to stderr
    mission_json,   \* the document dsl_to_json returned
    step_i,         \* run_validation: position of the for loop in steps
    current_state,  \* run_validation: current_state
    all_issues,     \* run_validation: all_issues
    log_buffer,     \* run_validation: log_buffer
    drone_sys_map,  \* compose_and_send_mavlink: drone_sys_map
    connections,    \* compose_and_send_mavlink: connections
    send,           \* compose_and_send_mavlink: send
    compose_i,      \* compose_and_send_mavlink: position of the for loop in steps
    seq,            \* compose_and_send_mavlink: seq of the current iteration
    generated,      \* compose_and_send_mavlink: generated
    seq_counter_per_drone,  \* compose_and_send_mavlink: seq_counter_per_drone
    mav_calls,      \* the calls made on the connections' mav objects, in order
    returned,       \* what compose_and_send_mavlink returned to its caller
    earlier_calls,  \* the caller's record of the calls of compose_and_send_mavlink that ended
    current_dsl,    \* interactive_session: current_dsl
    attempt,        \* interactive_session: attempt
    choice,         \* interactive_session: choice
    llm_calls,      \* the calls made to nl_to_drone_dsl, in order
    validation_calls,  \* the documents handed to run_validation, in order
    report,         \* what was appended to mission_validation_report.txt
    visualized      \* the documents visualize.py was launched on

vars == <<dsl, pc, exc, cmd_i, steps, used_drones, state_counter, diagnostics,
          mission_json, step_i, current_state, all_issues, log_buffer,
          drone_sys_map, connections, send, compose_i, seq, generated,
          seq_counter_per_drone, mav_calls, returned, earlier_calls,
          current_dsl, attempt, choice, llm_calls, validation_calls, report, visualized>>

parser_vars == <<cmd_i, steps, used_drones, state_counter, diagnostics, mission_json>>

validator_vars == <<step_i, current_state, all_issues, log_buffer>>

composer_args == <<drone_sys_map, connections, send>>

composer_vars == <<compose_i, seq, generated, seq_counter_per_drone, mav_calls, returned>>

caller_vars == <<earlier_calls>>

session_vars == <<current_dsl, attempt, choice, llm_calls, validation_calls, report, visualized>>

----------------------------------------------------------------------------
(* Bounds of the model.                                                    *)

\* Longest script of parser-pool instructions.
MaxCmds == 3

\* Longest script of validator-pool instructions.
MaxValCmds == 2

\* Longest generated parameter value (characters after "z=").
MaxValueLen == 3

\* Most steps of a document handed to the composer.
MaxSteps == 2

\* Most changes of plan a user asks for in one session.
MaxChanges == 2

----------------------------------------------------------------------------
(* Characters and text.                                                    *)

\* Python's None.
None == <<>>

\* The characters in use, in code-point order.
Chars == <<"+", "-", ".", "0", "1", "2", "3", "4", "5", "6", "7", "8", "9", "=",
           "A", "B", "C", "D", "E", "F", "G", "H", "I", "J", "K", "L", "M",
           "N", "O", "P", "Q", "R", "S", "T", "U", "V", "W", "X", "Y", "Z", "_",
           "a", "b", "c", "d", "e", "f", "g", "h", "i", "j", "k", "l", "m",
           "n", "o", "p", "q", "r", "s", "t", "u", "v", "w", "x", "y", "z">>

CharCode(c) == CHOOSE i \in 1..Len(Chars) : Chars[i] = c

DigitChars == <<"0", "1", "2", "3", "4", "5", "6", "7", "8", "9">>

IsDigit(c) == \E i \in 1..Len(DigitChars) : DigitChars[i] = c

DigitVal(c) == (CHOOSE i \in 1..Len(DigitChars) : DigitChars[i] = c) - 1

AllDigits(s) == \A i \in 1..Len(s) : IsDigit(s[i])

\* str.upper() of one character.
UpperChar(c) == IF CharCode(c) >= CharCode("a") /\ CharCode(c) <= CharCode("z")
                THEN Chars[CharCode(c) - (CharCode("a") - CharCode("A"))]
                ELSE c

Upper(s) == [i \in 1..Len(s) |-> UpperChar(s[i])]

\* sub in s
Contains(s, sub) == \E i \in 1..(Len(s) - Len(sub) + 1) : SubSeq(s, i, i + Len(sub) - 1) = sub

\* Python's order on str.
RECURSIVE StrLess(_, _)
StrLess(a, b) == IF a = <<>> THEN b # <<>>
                 ELSE IF b = <<>> THEN FALSE
                 ELSE IF a[1] = b[1] THEN StrLess(Tail(a), Tail(b))
                 ELSE CharCode(a[1]) < CharCode(b[1])

\* sorted(list(S)) of a set of str.
RECURSIVE sorted(_)
sorted(S) == IF S = {} THEN <<>>
             ELSE LET m == CHOOSE x \in S : \A y \in S \ {x} : StrLess(x, y)
                  IN <<m>> \o sorted(S \ {m})

\* s.split(sep) for a one-character separator.
RECURSIVE split(_, _)
split(s, sep) == IF \A i \in 1..Len(s) : s[i] # sep THEN <<s>>
                 ELSE LET i == CHOOSE j \in 1..Len(s) : s[j] = sep /\ \A k \in 1..(j - 1) : s[k] # sep
                      IN <<SubSeq(s, 1, i - 1)>> \o split(SubSeq(s, i + 1, Len(s)), sep)

RECURSIVE Pow10(_)
Pow10(n) == IF n = 0 THEN 1 ELSE 10 * Pow10(n - 1)

\* The value of a string of decimal digits (0 for the empty string).
RECURSIVE DigitsValue(_)
DigitsValue(s) == IF s = <<>> THEN 0
                  ELSE 10 * DigitsValue(SubSeq(s, 1, Len(s) - 1)) + DigitVal(s[Len(s)])

\* str(n) for a natural number.
RECURSIVE NatToStr(_)
NatToStr(n) == IF n < 10 THEN <<DigitChars[n + 1]>>
               ELSE NatToStr(n \div 10) \o <<DigitChars[(n % 10) + 1]>>

\* n digits of the natural number v, zero-padded on the left.
RECURSIVE PadDigits(_, _)
PadDigits(v, n) == IF n = 0 THEN <<>>
                   ELSE PadDigits(v \div 10, n - 1) \o <<DigitChars[(v % 10) + 1]>>

----------------------------------------------------------------------------
(* Numbers.  A decimal [m, f] is the number m / 10^f, kept normalised      *)
(* (f = 0 or m not a multiple of 10), so that equal numbers are equal      *)
(* records.  Python floats are modelled by these decimals: binary          *)
(* rounding, infinities and NaN are outside the model.                     *)

RECURSIVE Norm(_)
Norm(d) == IF d.f > 0 /\ d.m % 10 = 0 THEN Norm([m |-> d.m \div 10, f |-> d.f - 1]) ELSE d

Dec(n) == [m |-> n, f |-> 0]

MaxOf(a, b) == IF a >= b THEN a ELSE b

\* The mantissa of d at f >= d.f fractional digits.
Scaled(d, f) == d.m * Pow10(f - d.f)

DAdd(a, b) == LET f == MaxOf(a.f, b.f) IN Norm([m |-> Scaled(a, f) + Scaled(b, f), f |-> f])

DSub(a, b) == LET f == MaxOf(a.f, b.f) IN Norm([m |-> Scaled(a, f) - Scaled(b, f), f |-> f])

DMul(a, b) == Norm([m |-> a.m * b.m, f |-> a.f + b.f])

DLess(a, b) == LET f == MaxOf(a.f, b.f) IN Scaled(a, f) < Scaled(b, f)

\* The decimal written as [sign] digits [. digits] with at least one digit.
DecOfText(sign, intpart, frac) ==
    Norm([m |-> sign * (DigitsValue(intpart) * Pow10(Len(frac)) + DigitsValue(frac)),
          f |-> Len(frac)])

\* The values a params dictionary holds: an int, a float or a str.
IntValue(n) == [t |-> "int", m |-> n, f |-> 0, s |-> <<>>]

FloatValue(d) == [t |-> "float", m |-> d.m, f |-> d.f, s |-> <<>>]

StrValue(s) == [t |-> "str", m |-> 0, f |-> 0, s |-> s]

\* A dictionary is a function from its keys; d[k] = v keeps one entry per key.
EmptyDict == [k \in {} |-> None]

DictSet(d, k, v) == [x \in (DOMAIN d) \cup {k} |-> IF x = k THEN v ELSE d[x]]

----------------------------------------------------------------------------
(* dsl_to_json.py: words of the grammar.                                   *)

W_DRONE == <<"D", "R", "O", "N", "E">>

W_AFTER == <<"A", "F", "T", "E", "R">>

W_UNTIL == <<"U", "N", "T", "I", "L">>

W_STOP == <<"S", "T", "O", "P">>

W_NONE == <<"N", "O", "N", "E">>

W_ARM == <<"A", "R", "M">>

W_DISARM == <<"D", "I", "S", "A", "R", "M">>

W_TAKEOFF == <<"T", "A", "K", "E", "O", "F", "F">>

W_LAND == <<"L", "A", "N", "D">>

W_GOTO == <<"G", "O", "T", "O">>

W_HOLD == <<"H", "O", "L", "D">>

W_CIRCLE == <<"C", "I", "R", "C", "L", "E">>

W_RETURN == <<"R", "E", "T", "U", "R", "N">>

W_SPEED == <<"S", "P", "E", "E", "D">>

W_YAW == <<"Y", "A", "W">>

W_FOLLOW == <<"F", "O", "L", "L", "O", "W">>

W_WAIT == <<"W", "A", "I", "T">>

W_ROTATE == <<"R", "O", "T", "A", "T", "E">>

W_MOVE == <<"M", "O", "V", "E">>

W_ROI == <<"R", "O", "I">>

W_TRIGGER == <<"T", "R", "I", "G", "G", "E", "R">>

W_GIMBAL == <<"G", "I", "M", "B", "A", "L">>

W_SERVO == <<"S", "E", "R", "V", "O">>

ACTION_KEYWORDS == {W_ARM, W_DISARM, W_TAKEOFF, W_LAND, W_GOTO, W_HOLD,
                    W_CIRCLE, W_RETURN, W_SPEED, W_YAW, W_FOLLOW, W_WAIT, W_ROTATE, W_MOVE,
                    W_ROI, W_TRIGGER, W_GIMBAL, W_SERVO}

----------------------------------------------------------------------------
(* dsl_to_json.py: parse_param_list and parse_control.                     *)

\* A slip in the pattern: r"-?\d+(\.\d*)?" also takes "1." for a number.
FullMatchNumberEmptyFraction(v) ==
    LET body == IF v # <<>> /\ v[1] = "-" THEN Tail(v) ELSE v
        parts == split(body, ".")
    IN  /\ Len(parts) \in {1, 2}
        /\ parts[1] # <<>>
        /\ \A i \in 1..Len(parts) : AllDigits(parts[i])

\* re.fullmatch(r"-?\d+(\.\d+)?", v)
FullMatchNumber(v) ==
    LET body == IF v # <<>> /\ v[1] = "-" THEN Tail(v) ELSE v
        parts == split(body, ".")
    IN  /\ Len(parts) \in {1, 2}
        /\ \A i \in 1..Len(parts) : parts[i] # <<>> /\ AllDigits(parts[i])

\* float(v) if "." in v else int(v), for a v that matched.
NumberOfMatch(v) ==
    LET sign == IF v[1] = "-" THEN -1 ELSE 1
        body == IF v[1] = "-" THEN Tail(v) ELSE v
        parts == split(body, ".")
    IN  IF Len(parts) = 2 THEN FloatValue(DecOfText(sign, parts[1], parts[2]))
        ELSE IntValue(sign * DigitsValue(body))

\* The value stored for the text v of a key=value token.
CoerceValue(v) == IF FullMatchNumber(v) THEN NumberOfMatch(v) ELSE StrValue(v)

\* The while loop of parse_param_list from position idx with params so far.
\* ok = FALSE: "k, v = tok.split('=')" raised ValueError (not exactly two parts).
RECURSIVE ParamLoop(_, _, _)
ParamLoop(tokens, idx, params) ==
    IF idx > Len(tokens) THEN [ok |-> TRUE, params |-> params, idx |-> idx]
    ELSE LET tok == tokens[idx] IN
         IF tok \in {W_AFTER, W_UNTIL} THEN [ok |-> TRUE, params |-> params, idx |-> idx]
         ELSE IF Contains(tok, <<"=">>)
              THEN LET kv == split(tok, "=") IN
                   IF Len(kv) # 2 THEN [ok |-> FALSE, params |-> params, idx |-> idx]
                   ELSE ParamLoop(tokens, idx + 1, DictSet(params, kv[1], CoerceValue(kv[2])))
              ELSE ParamLoop(tokens, idx + 1, params)

parse_param_list(tokens, idx) == ParamLoop(tokens, idx, EmptyDict)

NoControl == [after_state |-> W_NONE, after_drone |-> None, until |-> None]

\* A slip: the target is never tested for the state-id prefix.
AfterControlNoPrefixTest(target) ==
    [after_state |-> target, after_drone |-> None, until |-> None]

\* The record of "AFTER <target>": target.startswith("s") tells a state id
\* from a drone id.
AfterControl(target) ==
    IF target[1] = "s"
    THEN [after_state |-> target, after_drone |-> None, until |-> None]
    ELSE [after_state |-> W_NONE, after_drone |-> target, until |-> None]

\* ok = FALSE: tokens[idx + 1] raised IndexError.
parse_control(tokens, idx) ==
    IF idx > Len(tokens) THEN [ok |-> TRUE, control |-> NoControl, idx |-> idx]
    ELSE IF tokens[idx] = W_AFTER
         THEN IF idx + 1 > Len(tokens) THEN [ok |-> FALSE, control |-> NoControl, idx |-> idx]
              ELSE [ok |-> TRUE, idx |-> idx + 2, control |-> AfterControl(tokens[idx + 1])]
    ELSE IF tokens[idx] = W_UNTIL
         THEN IF idx + 1 > Len(tokens) THEN [ok |-> FALSE, control |-> NoControl, idx |-> idx]
              ELSE [ok |-> TRUE, idx |-> idx + 2,
                    control |-> [after_state |-> W_NONE, after_drone |-> None, until |-> tokens[idx + 1]]]
    ELSE [ok |-> TRUE, control |-> NoControl, idx |-> idx]

----------------------------------------------------------------------------
(* dsl_to_json.py: dsl_to_json.                                            *)

\* raw_cmds: the non-empty segments of the script.
raw_cmds == SelectSeq(dsl, LAMBDA c : c # <<>>)

\* The checks of one instruction, in the code's order: the warning that
\* drops it, or "ok".
LineCheck(tokens) ==
    IF Len(tokens) < 2 THEN "short"
    ELSE IF tokens[1] # W_DRONE THEN "prefix"
    ELSE IF Len(tokens) < 3 THEN "missing_action"
    ELSE IF tokens[3] \notin ACTION_KEYWORDS /\ tokens[3] # W_STOP THEN "unknown_action"
    ELSE "ok"

\* A slip: a short line is skipped silently, as an empty one is.
WarningSilentShort(chk, tokens) ==
    IF chk = "short" THEN <<>> ELSE <<[kind |-> chk, cmd |-> tokens]>>

\* print(f"Warning: ...", file=sys.stderr) of a dropped instruction.
Warning(chk, tokens) == <<[kind |-> chk, cmd |-> tokens]>>

\* used_drones.add(drone_id) runs once the DRONE prefix is seen, before the
\* action is looked at.
DronesAfter(tokens, drones) ==
    IF Len(tokens) >= 2 /\ tokens[1] = W_DRONE THEN drones \cup {tokens[2]} ELSE drones

\* A slip: STOP is let through without the auto-fix.
FixActionNoAlias(action) == action

\* The action of an instruction that passed the keyword check.
FixAction(action) == IF action \notin ACTION_KEYWORDS /\ action = W_STOP THEN W_HOLD ELSE action

\* A slip: the id numbered by the position in raw_cmds, not by state_counter.
StateIdFromPosition(counter) == <<"s">> \o NatToStr(cmd_i)

\* f"s{state_counter}"
StateId(counter) == <<"s">> \o NatToStr(counter)

\* next_state
NextState(counter, n_raw) == IF counter < n_raw THEN StateId(counter + 1) ELSE None

BuildStep(tokens, counter, n_raw, params, control) ==
    [state_id |-> StateId(counter),
     drone    |-> tokens[2],
     action   |-> FixAction(tokens[3]),
     params   |-> params,
     control  |-> control,
     next     |-> NextState(counter, n_raw)]

\* One iteration of "for cmd in raw_cmds".
dsl_to_json_cmd ==
    /\ pc = "parse"
    /\ cmd_i <= Len(raw_cmds)
    /\ LET tokens == raw_cmds[cmd_i]
           chk == LineCheck(tokens)
           pr == parse_param_list(tokens, 4)
           cr == parse_control(tokens, pr.idx)
       IN  /\ used_drones' = DronesAfter(tokens, used_drones)
           /\ IF chk # "ok"
              THEN /\ diagnostics' = diagnostics \o Warning(chk, tokens)
                   /\ cmd_i' = cmd_i + 1
                   /\ UNCHANGED <<pc, exc, steps, state_counter>>
              ELSE IF ~pr.ok
              THEN /\ pc' = "parse_raised"
                   /\ exc' = "ValueError"
                   /\ UNCHANGED <<cmd_i, steps, state_counter, diagnostics>>
              ELSE IF ~cr.ok
              THEN /\ pc' = "parse_raised"
                   /\ exc' = "IndexError"
                   /\ UNCHANGED <<cmd_i, steps, state_counter, diagnostics>>
              ELSE /\ steps' = Append(steps, BuildStep(tokens, state_counter, Len(raw_cmds),
                                                       pr.params, cr.control))
                   /\ state_counter' = state_counter + 1
                   /\ cmd_i' = cmd_i + 1
                   /\ UNCHANGED <<pc, exc, diagnostics>>
    /\ UNCHANGED <<dsl, mission_json>>
    /\ UNCHANGED validator_vars
    /\ UNCHANGED <<composer_args, composer_vars, caller_vars, session_vars>>

W_mission_auto == <<"m", "i", "s", "s", "i", "o", "n", "_", "a", "u", "t", "o">>

\* The return statement of dsl_to_json.
dsl_to_json_return ==
    /\ pc = "parse"
    /\ cmd_i > Len(raw_cmds)
    /\ mission_json' = [mission_id |-> W_mission_auto,
                        drones     |-> sorted(used_drones),
                        steps      |-> steps]
    /\ pc' = "parsed"
    /\ UNCHANGED <<dsl, exc, cmd_i, steps, used_drones, state_counter, diagnostics>>
    /\ UNCHANGED validator_vars
    /\ UNCHANGED <<composer_args, composer_vars, caller_vars, session_vars>>

----------------------------------------------------------------------------
(* validate_mission.py: constants.                                         *)

MAX_ALTITUDE == 120

MIN_ALTITUDE == 0

MAX_DISTANCE == 500

\* TAKEOFF's altitude when neither altitude nor alt is given.
DEFAULT_TAKEOFF_ALT == 10

K_altitude == <<"a", "l", "t", "i", "t", "u", "d", "e">>

K_alt == <<"a", "l", "t">>

K_x == <<"x">>

K_y == <<"y">>

K_z == <<"z">>

K_distance == <<"d", "i", "s", "t", "a", "n", "c", "e">>

K_direction == <<"d", "i", "r", "e", "c", "t", "i", "o", "n">>

W_NORTH == <<"N", "O", "R", "T", "H">>

W_SOUTH == <<"S", "O", "U", "T", "H">>

W_EAST == <<"E", "A", "S", "T">>

W_WEST == <<"W", "E", "S", "T">>

W_UP == <<"U", "P">>

W_DOWN == <<"D", "O", "W", "N">>

----------------------------------------------------------------------------
(* validate_mission.py: validate_step.                                     *)

\* params.get(key, default)
Get(params, key, default) == IF key \in DOMAIN params THEN params[key] ELSE default

\* float(s) of a str: [sign] digits [. [digits]] or [sign] . digits; anything
\* else raises ValueError (ok = FALSE).  Exponents, "inf", "nan" and
\* underscores are not among the texts of the model.
FloatOfStr(s) ==
    LET signed == s # <<>> /\ s[1] \in {"+", "-"}
        sign == IF signed /\ s[1] = "-" THEN -1 ELSE 1
        body == IF signed THEN Tail(s) ELSE s
        parts == split(body, ".")
        frac == IF Len(parts) = 2 THEN parts[2] ELSE <<>>
        good == /\ Len(parts) \in {1, 2}
                /\ AllDigits(parts[1])
                /\ AllDigits(frac)
                /\ Len(parts[1]) + Len(frac) >= 1
    IN  IF good THEN [ok |-> TRUE, d |-> DecOfText(sign, parts[1], frac)]
        ELSE [ok |-> FALSE, d |-> Dec(0)]

\* float(v) of a params value.
FloatOf(v) == IF v.t = "str" THEN FloatOfStr(v.s) ELSE [ok |-> TRUE, d |-> Norm([m |-> v.m, f |-> v.f])]

\* str(v) of a params value.
StrOf(v) ==
    LET neg == v.m < 0
        mag == IF neg THEN 0 - v.m ELSE v.m
        sgn == IF neg THEN <<"-">> ELSE <<>>
    IN  IF v.t = "str" THEN v.s
        ELSE IF v.t = "int" THEN sgn \o NatToStr(mag)
        ELSE sgn \o NatToStr(mag \div Pow10(v.f)) \o <<".">>
                 \o (IF v.f = 0 THEN <<"0">> ELSE PadDigits(mag % Pow10(v.f), v.f))

\* A slip: an absent axis reset to 0 instead of kept.
GotoAxisAbsentZero(params, key, old) ==
    IF key \in DOMAIN params THEN FloatOf(params[key]) ELSE [ok |-> TRUE, d |-> Dec(0)]

\* Check 1: the issue of a TAKEOFF without altitude or alt.
MissingAltitude(action, params) ==
    action = W_TAKEOFF /\ ~(K_altitude \in DOMAIN params \/ K_alt \in DOMAIN params)

\* GOTO: one axis overwritten when its key is present.
GotoAxis(params, key, old) ==
    IF key \in DOMAIN params THEN FloatOf(params[key]) ELSE [ok |-> TRUE, d |-> old]

\* MOVE: the first keyword found in the upper-cased direction decides.
MoveState(direction, dist, cs) ==
    IF Contains(direction, W_NORTH) THEN [cs EXCEPT ![2] = DAdd(cs[2], dist)]
    ELSE IF Contains(direction, W_SOUTH) THEN [cs EXCEPT ![2] = DSub(cs[2], dist)]
    ELSE IF Contains(direction, W_EAST) THEN [cs EXCEPT ![1] = DAdd(cs[1], dist)]
    ELSE IF Contains(direction, W_WEST) THEN [cs EXCEPT ![1] = DSub(cs[1], dist)]
    ELSE IF Contains(direction, W_UP) THEN [cs EXCEPT ![3] = DAdd(cs[3], dist)]
    ELSE IF Contains(direction, W_DOWN) THEN [cs EXCEPT ![3] = DSub(cs[3], dist)]
    ELSE cs

\* The physics prediction: next_state, or ok = FALSE when a float() raised.
Predict(action, params, cs) ==
    IF action = W_TAKEOFF
    THEN LET alt == FloatOf(Get(params, K_altitude, Get(params, K_alt, IntValue(DEFAULT_TAKEOFF_ALT))))
         IN  [ok |-> alt.ok, state |-> [cs EXCEPT ![3] = alt.d]]
    ELSE IF action = W_GOTO
    THEN LET x == GotoAxis(params, K_x, cs[1])
             y == GotoAxis(params, K_y, cs[2])
             z == GotoAxis(params, K_z, cs[3])
         IN  [ok |-> x.ok /\ y.ok /\ z.ok, state |-> <<x.d, y.d, z.d>>]
    ELSE IF action = W_MOVE
    THEN LET dist == FloatOf(Get(params, K_distance, IntValue(0)))
             direction == Upper(StrOf(Get(params, K_direction, StrValue(<<>>))))
         IN  [ok |-> dist.ok, state |-> MoveState(direction, dist.d, cs)]
    ELSE IF action = W_LAND
    THEN [ok |-> TRUE, state |-> [cs EXCEPT ![3] = Dec(0)]]
    ELSE [ok |-> TRUE, state |-> cs]

\* Check A
BelowGround(z) == DLess(z, Dec(MIN_ALTITUDE))

\* A slip: >= in place of > at the ceiling.
AboveCeilingInclusive(z) == ~DLess(z, Dec(MAX_ALTITUDE))

\* Check B
AboveCeiling(z) == DLess(Dec(MAX_ALTITUDE), z)

\* Check C: math.sqrt(x**2 + y**2) > MAX_DISTANCE.  The square root is
\* strictly increasing, so the comparison is that of the squares.
OutsideGeofence(x, y) ==
    DLess(DMul(Dec(MAX_DISTANCE), Dec(MAX_DISTANCE)), DAdd(DMul(x, x), DMul(y, y)))

Issue(index, check) == [step |-> index, check |-> check]

LogLine(index, tag) == [step |-> index, tag |-> tag]

\* issues.append(msg) and the log line of one check.
CheckResult(index, failed, check) ==
    [issues |-> IF failed THEN <<Issue(index, check)>> ELSE <<>>,
     log    |-> <<LogLine(index, IF failed THEN <<check, "fail">> ELSE <<check, "ok">>)>>]

\* A slip: the checks chained with elif, so that the first issue ends them.
CollectIssuesFirstOnly(syntax, a, b, c) ==
    IF syntax # <<>> THEN syntax
    ELSE IF a # <<>> THEN a
    ELSE IF b # <<>> THEN b
    ELSE c

\* The issues of one step, each appended as its check runs.
CollectIssues(syntax, a, b, c) == syntax \o a \o b \o c

\* validate_step(step, index, current_state, log_buffer): the issues, the
\* next state and the lines appended to log_buffer; ok = FALSE when a
\* float() raised ValueError, after the lines of the syntax check.
validate_step(step, index, cs) ==
    LET action == step.action
        params == step.params
        syntax == IF action = W_TAKEOFF
                  THEN CheckResult(index, MissingAltitude(action, params), "required_param")
                  ELSE [issues |-> <<>>, log |-> <<>>]
        head == <<LogLine(index, <<"action">>)>> \o syntax.log
        pred == Predict(action, params, cs)
        ns == pred.state
        a == CheckResult(index, BelowGround(ns[3]), "min_altitude")
        b == CheckResult(index, AboveCeiling(ns[3]), "max_altitude")
        c == CheckResult(index, OutsideGeofence(ns[1], ns[2]), "geofence")
    IN  IF ~pred.ok
        THEN [ok |-> FALSE, issues |-> syntax.issues, next_state |-> cs, log |-> head]
        ELSE [ok |-> TRUE,
              issues |-> CollectIssues(syntax.issues, a.issues, b.issues, c.issues),
              next_state |-> ns,
              log |-> head \o <<LogLine(index, <<"state">>)>> \o a.log \o b.log \o c.log]

----------------------------------------------------------------------------
(* validate_mission.py: run_validation.                                    *)

Origin == <<Dec(0), Dec(0), Dec(0)>>

\* A slip: the buffer rebuilt from the new lines instead of appended to.
AppendLogOverwriting(buffer, lines) == lines

\* log_buffer.append(line), for the lines of one call in order.
AppendLog(buffer, lines) == buffer \o lines

\* A slip: the position a step returned is dropped.
AdvanceNever(current, next) == current

\* step_issues, current_state = validate_step(step, i+1, current_state, log_buffer)
Advance(current, next) == next

LogHeader == <<LogLine(0, <<"rule">>), LogLine(0, <<"title">>), LogLine(0, <<"mission_id">>),
               LogLine(0, <<"rule">>)>>

\* The start of run_validation(mission_json), up to the for loop.
run_validation_start ==
    /\ pc = "parsed"
    /\ log_buffer' = AppendLog(<<>>, LogHeader)
    /\ IF "steps" \notin DOMAIN mission_json
       THEN /\ pc' = "validated"
            /\ all_issues' = <<Issue(0, "no_steps")>>
            /\ UNCHANGED <<current_state, step_i>>
       ELSE /\ pc' = "validate"
            /\ all_issues' = <<>>
            /\ current_state' = Origin
            /\ step_i' = 1
    /\ UNCHANGED <<dsl, exc>>
    /\ UNCHANGED parser_vars
    /\ UNCHANGED <<composer_args, composer_vars, caller_vars, session_vars>>

\* One iteration of "for i, step in enumerate(mission_json['steps'])".
run_validation_step ==
    /\ pc = "validate"
    /\ step_i <= Len(mission_json.steps)
    /\ LET r == validate_step(mission_json.steps[step_i], step_i, current_state)
       IN  /\ log_buffer' = AppendLog(log_buffer, r.log)
           /\ IF r.ok
              THEN /\ all_issues' = all_issues \o r.issues
                   /\ current_state' = Advance(current_state, r.next_state)
                   /\ step_i' = step_i + 1
                   /\ UNCHANGED <<pc, exc>>
              ELSE /\ pc' = "validate_raised"
                   /\ exc' = "ValueError"
                   /\ UNCHANGED <<all_issues, current_state, step_i>>
    /\ UNCHANGED dsl
    /\ UNCHANGED parser_vars
    /\ UNCHANGED <<composer_args, composer_vars, caller_vars, session_vars>>

\* The conclusion lines and the return of run_validation.
run_validation_return ==
    /\ pc = "validate"
    /\ step_i > Len(mission_json.steps)
    /\ log_buffer' = AppendLog(log_buffer,
                                <<LogLine(0, <<"rule">>),
                                  LogLine(0, IF all_issues # <<>> THEN <<"failed">> ELSE <<"passed">>),
                                  LogLine(0, IF all_issues # <<>> THEN <<"total">> ELSE <<"satisfied">>),
                                  LogLine(0, <<"rule">>)>>)
    /\ pc' = "validated"
    /\ UNCHANGED <<dsl, exc, step_i, current_state, all_issues>>
    /\ UNCHANGED parser_vars
    /\ UNCHANGED <<composer_args, composer_vars, caller_vars, session_vars>>

----------------------------------------------------------------------------
(* json_to_mavlink.py: values and helpers.                                 *)

\* A mavutil.mavlink constant, kept by name: MAV_CMD_* codes are integers
\* whose values the composer never inspects.
MavCmd(name) == [kind |-> "int", name |-> name]

\* mavutil.mavlink.MAV_FRAME_GLOBAL_RELATIVE_ALT
MAV_FRAME_GLOBAL_RELATIVE_ALT == 3

K_lat == <<"l", "a", "t">>

K_lon == <<"l", "o", "n">>

K_time == <<"t", "i", "m", "e">>

K_t == <<"t">>

K_turns == <<"t", "u", "r", "n", "s">>

K_target == <<"t", "a", "r", "g", "e", "t">>

K_speed == <<"s", "p", "e", "e", "d">>

K_v == <<"v">>

K_type == <<"t", "y", "p", "e">>

K_throttle == <<"t", "h", "r", "o", "t", "t", "l", "e">>

K_yaw == <<"y", "a", "w">>

K_heading == <<"h", "e", "a", "d", "i", "n", "g">>

K_relative == <<"r", "e", "l", "a", "t", "i", "v", "e">>

\* params.get(k1, params.get(k2, ... default)) for the keys in order.
RECURSIVE GetFirst(_, _, _)
GetFirst(params, keys, default) ==
    IF keys = <<>> THEN default
    ELSE IF Head(keys) \in DOMAIN params THEN params[Head(keys)]
    ELSE GetFirst(params, Tail(keys), default)

\* float(params.get(k1, ... default)): [ok, d], ok = FALSE for ValueError.
FloatGet(params, keys, default) == FloatOf(GetFirst(params, keys, IntValue(default)))

\* bool(v) of a params value.
Truthy(v) == IF v.t = "str" THEN v.s # <<>> ELSE v.m # 0

\* int(x) of a quotient: truncation toward zero.
Trunc(n, k) == IF n < 0 THEN 0 - ((0 - n) \div k) ELSE n \div k

\* int(d * 1e7) of a decimal, in exact arithmetic.
MulE7Int(d) == Trunc(d.m * Pow10(7), Pow10(d.f))

\* int(params.get(key, 0) * 1e7) if params.get(key) else 0: a text value
\* times 1e7 raises TypeError.
LatLonInt(params, key) ==
    IF key \notin DOMAIN params \/ ~Truthy(params[key]) THEN [exc |-> "none", v |-> IntValue(0)]
    ELSE IF params[key].t = "str" THEN [exc |-> "TypeError", v |-> IntValue(0)]
    ELSE [exc |-> "none", v |-> IntValue(MulE7Int(params[key]))]

\* int(float(params[key]) * 1e7)
LatLonOfFloat(params, key) ==
    LET x == FloatOf(params[key])
    IN  IF x.ok THEN [exc |-> "none", v |-> IntValue(MulE7Int(x.d))]
        ELSE [exc |-> "ValueError", v |-> IntValue(0)]

\* float(x) and int(x) of a number already computed.
ToFloat(v) == FloatValue(FloatOf(v).d)

ToInt(v) == IntValue(Trunc(v.m, Pow10(v.f)))

\* (params + [0.0] * 7)[:7]
Pad7(params) == SubSeq(params \o [i \in 1..7 |-> FloatValue(Dec(0))], 1, 7)

\* d.update(u)
Updated(d, u) == [k \in (DOMAIN d) \cup (DOMAIN u) |-> IF k \in DOMAIN u THEN u[k] ELSE d[k]]

command_long_dict(sysid, compid, command, params) ==
    [type |-> "COMMAND_LONG", sysid |-> sysid, compid |-> compid, command |-> command,
     confirmation |-> 0, params |-> Pad7(params)]

mission_item_int_dict(sysid, compid, sq, command, p1234, x, y, z, frame) ==
    [type |-> "MISSION_ITEM_INT", sysid |-> sysid, compid |-> compid, seq |-> sq,
     command |-> command, params |-> p1234 \o <<x, y, z>>, frame |-> frame,
     current |-> 0, autocontinue |-> 1]

\* What one iteration of the loop yields: the exception it raised or its
\* descriptor, whether it assigned seq + 1 to the drone's counter, and the
\* send helper it calls when transmission is on.
NoCall == [fn |-> "none"]

CommandLongCall(cmd, p) == [fn |-> "command_long_send", command |-> cmd, params |-> p]

MissionItemCall(sq, cmd, p, frame) ==
    [fn |-> "mission_item_int_send", seq |-> sq, command |-> cmd, params |-> p, frame |-> frame]

Built(md, bump, call) == [exc |-> "none", md |-> md, bump |-> bump, call |-> call]

Raised(e) == [exc |-> e, md |-> None, bump |-> FALSE, call |-> NoCall]

\* A slip: the descriptor tagged with the drone its step waits for.
TagsAfterDrone(step) ==
    [drone |-> IF step.control.after_drone # None THEN step.control.after_drone ELSE step.drone,
     action |-> step.action, state_id |-> step.state_id]

Tags(step) == [drone |-> step.drone, action |-> step.action, state_id |-> step.state_id]

TagsWithParams(step) ==
    [drone |-> step.drone, action |-> step.action, state_id |-> step.state_id,
     human_params |-> step.params]

Zeros(n) == [i \in 1..n |-> IntValue(0)]

----------------------------------------------------------------------------
(* json_to_mavlink.py: the branches of compose_and_send_mavlink.           *)

\* A slip: param1 = 1.0 whatever the action.
ArmDisarmStepAlwaysArm(step, sysid, compid, p1) ==
    LET cmd == MavCmd("MAV_CMD_COMPONENT_ARM_DISARM")
        p == <<FloatValue(Dec(1))>>
    IN  Built(Updated(command_long_dict(sysid, compid, cmd, p), Tags(step)), FALSE,
              CommandLongCall(cmd, p))

\* ARM (param1 = 1.0) and DISARM (param1 = 0.0)
ArmDisarmStep(step, sysid, compid, p1) ==
    LET cmd == MavCmd("MAV_CMD_COMPONENT_ARM_DISARM")
        p == <<FloatValue(Dec(p1))>>
    IN  Built(Updated(command_long_dict(sysid, compid, cmd, p), Tags(step)), FALSE,
              CommandLongCall(cmd, p))

\* TAKEOFF and LAND: a mission item at altitude, with lat/lon when given.
NavAltitudeStep(step, sysid, compid, sq, name, altitude) ==
    LET cmd == MavCmd(name)
        lat == LatLonInt(step.params, K_lat)
        lon == LatLonInt(step.params, K_lon)
        z == FloatValue(altitude.d)
        p == Zeros(4) \o <<lat.v, lon.v, z>>
    IN  IF ~altitude.ok THEN Raised("ValueError")
        ELSE IF lat.exc # "none" THEN Raised(lat.exc)
        ELSE IF lon.exc # "none" THEN Raised(lon.exc)
        ELSE Built(Updated(mission_item_int_dict(sysid, compid, sq, cmd, Zeros(4), lat.v, lon.v, z,
                                                 MAV_FRAME_GLOBAL_RELATIVE_ALT),
                           TagsWithParams(step)),
                   TRUE, MissionItemCall(sq, cmd, p, MAV_FRAME_GLOBAL_RELATIVE_ALT))

TakeoffStep(step, sysid, compid, sq) ==
    NavAltitudeStep(step, sysid, compid, sq, "MAV_CMD_NAV_TAKEOFF",
                    FloatGet(step.params, <<K_altitude, K_alt, K_z>>, DEFAULT_TAKEOFF_ALT))

LandStep(step, sysid, compid, sq) ==
    NavAltitudeStep(step, sysid, compid, sq, "MAV_CMD_NAV_LAND",
                    FloatGet(step.params, <<K_altitude, K_alt>>, 0))

\* GOTO: seq_counter_per_drone[drone] = seq + 1 follows either descriptor.
GotoStep(step, sysid, compid, sq) ==
    LET cmd == MavCmd("MAV_CMD_NAV_WAYPOINT")
        params == step.params
        located == K_lat \in DOMAIN params /\ K_lon \in DOMAIN params
        lat == IF located THEN LatLonOfFloat(params, K_lat) ELSE [exc |-> "none", v |-> IntValue(0)]
        lon == IF located THEN LatLonOfFloat(params, K_lon) ELSE [exc |-> "none", v |-> IntValue(0)]
        alt == FloatGet(params, <<K_altitude, K_alt, K_z>>, 0)
        z == FloatValue(alt.d)
        p == Zeros(4) \o <<lat.v, lon.v, z>>
        item == mission_item_int_dict(sysid, compid, sq, cmd, Zeros(4), lat.v, lon.v, z,
                                      MAV_FRAME_GLOBAL_RELATIVE_ALT)
        unsupported == [type |-> "UNSUPPORTED", drone |-> step.drone, action |-> W_GOTO,
                        reason |-> "Missing lat/lon", params |-> params]
    IN  IF ~located
        THEN Built(Updated(unsupported, TagsWithParams(step)), TRUE, NoCall)
        ELSE IF lat.exc # "none" THEN Raised(lat.exc)
        ELSE IF lon.exc # "none" THEN Raised(lon.exc)
        ELSE IF ~alt.ok THEN Raised("ValueError")
        ELSE Built(Updated(item, TagsWithParams(step)), TRUE,
                   MissionItemCall(sq, cmd, p, MAV_FRAME_GLOBAL_RELATIVE_ALT))

SpeedStep(step, sysid, compid) ==
    LET cmd == MavCmd("MAV_CMD_DO_CHANGE_SPEED")
        speed_type == FloatGet(step.params, <<K_type>>, 1)
        speed == FloatGet(step.params, <<K_speed, K_v>>, 0)
        throttle == FloatGet(step.params, <<K_throttle>>, 0)
        p == <<FloatValue(speed_type.d), FloatValue(speed.d), FloatValue(throttle.d)>>
    IN  IF ~(speed_type.ok /\ speed.ok /\ throttle.ok) THEN Raised("ValueError")
        ELSE Built(Updated(command_long_dict(sysid, compid, cmd, p), TagsWithParams(step)), FALSE,
                   CommandLongCall(cmd, p))

YawStep(step, sysid, compid) ==
    LET cmd == MavCmd("MAV_CMD_CONDITION_YAW")
        yaw == FloatGet(step.params, <<K_yaw, K_heading>>, 0)
        speed == FloatGet(step.params, <<K_speed>>, 0)
        direction == FloatGet(step.params, <<K_direction>>, 0)
        relative == IF K_relative \in DOMAIN step.params /\ ~Truthy(step.params[K_relative])
                    THEN FloatValue(Dec(0)) ELSE FloatValue(Dec(1))
        p == <<FloatValue(yaw.d), FloatValue(speed.d), FloatValue(direction.d), relative>>
    IN  IF ~(yaw.ok /\ speed.ok /\ direction.ok) THEN Raised("ValueError")
        ELSE Built(Updated(command_long_dict(sysid, compid, cmd, p), TagsWithParams(step)), FALSE,
                   CommandLongCall(cmd, p))

\* HOLD: the descriptor gets no drone, action or state_id; the helper is
\* called with its default frame 0.
HoldStep(step, sysid, compid, sq) ==
    LET cmd == MavCmd("MAV_CMD_NAV_LOITER_UNTIL")
        timeout == FloatGet(step.params, <<K_time>>, 0)
        p == <<FloatValue(timeout.d)>> \o Zeros(6)
    IN  IF ~timeout.ok THEN Raised("ValueError")
        ELSE Built(mission_item_int_dict(sysid, compid, sq, cmd, SubSeq(p, 1, 4), IntValue(0),
                                         IntValue(0), IntValue(0), MAV_FRAME_GLOBAL_RELATIVE_ALT),
                   TRUE, MissionItemCall(sq, cmd, p, 0))

ReturnStep(step, sysid, compid) ==
    LET cmd == MavCmd("MAV_CMD_NAV_RETURN_TO_LAUNCH")
    IN  Built(command_long_dict(sysid, compid, cmd, <<>>), FALSE, CommandLongCall(cmd, <<>>))

\* CIRCLE: z of the descriptor is params.get("alt", 0) as stored; the
\* helper is called with z = 0.
CircleStep(step, sysid, compid, sq) ==
    LET cmd == MavCmd("MAV_CMD_NAV_LOITER_TURNS")
        turns == FloatGet(step.params, <<K_turns>>, 1)
        p == <<FloatValue(turns.d)>> \o Zeros(6)
    IN  IF ~turns.ok THEN Raised("ValueError")
        ELSE Built(mission_item_int_dict(sysid, compid, sq, cmd, SubSeq(p, 1, 4), IntValue(0),
                                         IntValue(0), Get(step.params, K_alt, IntValue(0)), 0),
                   TRUE, MissionItemCall(sq, cmd, p, 0))

FollowStep(step, sysid, compid) ==
    IF K_target \in DOMAIN step.params
    THEN Built([type |-> "COMMAND_LONG", sysid |-> sysid, compid |-> compid,
                command |-> [kind |-> "str", name |-> "MAV_CMD_DO_FOLLOW (non-standard)"],
                params |-> step.params],
               FALSE, NoCall)
    ELSE Built([type |-> "UNSUPPORTED", drone |-> step.drone, action |-> W_FOLLOW,
                reason |-> "no target provided"],
               FALSE, NoCall)

\* A slip: WAIT sent to the vehicle as a delay command.
WaitStepTransmitted(step) ==
    LET wait_seconds == FloatGet(step.params, <<K_time, K_t>>, 1)
    IN  IF ~wait_seconds.ok THEN Raised("ValueError")
        ELSE Built([type |-> "WAIT", drone |-> step.drone, action |-> W_WAIT,
                    seconds |-> FloatValue(wait_seconds.d), state_id |-> step.state_id],
                   FALSE,
                   CommandLongCall(MavCmd("MAV_CMD_CONDITION_DELAY"),
                                   <<FloatValue(wait_seconds.d)>>))

WaitStep(step) ==
    LET wait_seconds == FloatGet(step.params, <<K_time, K_t>>, 1)
    IN  IF ~wait_seconds.ok THEN Raised("ValueError")
        ELSE Built([type |-> "WAIT", drone |-> step.drone, action |-> W_WAIT,
                    seconds |-> FloatValue(wait_seconds.d), state_id |-> step.state_id],
                   FALSE, NoCall)

UnsupportedStep(step) ==
    Built([type |-> "UNSUPPORTED", drone |-> step.drone, action |-> step.action,
           params |-> step.params],
          FALSE, NoCall)

\* The if/elif chain on action.
Compose(step, sysid, compid, sq) ==
    IF step.action = W_ARM THEN ArmDisarmStep(step, sysid, compid, 1)
    ELSE IF step.action = W_DISARM THEN ArmDisarmStep(step, sysid, compid, 0)
    ELSE IF step.action = W_TAKEOFF THEN TakeoffStep(step, sysid, compid, sq)
    ELSE IF step.action = W_LAND THEN LandStep(step, sysid, compid, sq)
    ELSE IF step.action = W_GOTO THEN GotoStep(step, sysid, compid, sq)
    ELSE IF step.action = W_SPEED THEN SpeedStep(step, sysid, compid)
    ELSE IF step.action = W_YAW THEN YawStep(step, sysid, compid)
    ELSE IF step.action = W_HOLD THEN HoldStep(step, sysid, compid, sq)
    ELSE IF step.action = W_RETURN THEN ReturnStep(step, sysid, compid)
    ELSE IF step.action = W_CIRCLE THEN CircleStep(step, sysid, compid, sq)
    ELSE IF step.action = W_FOLLOW THEN FollowStep(step, sysid, compid)
    ELSE IF step.action = W_WAIT THEN WaitStep(step)
    ELSE UnsupportedStep(step)

\* _send_command_long and _send_mission_item_int: the call made on conn.mav.
send_command_long(conn, sysid, compid, call) ==
    [fn |-> "command_long_send", conn |-> conn, target_system |-> sysid,
     target_component |-> compid, command |-> call.command, confirmation |-> 0,
     params |-> [i \in 1..7 |-> IF i <= Len(call.params) THEN ToFloat(call.params[i])
                                ELSE FloatValue(Dec(0))]]

send_mission_item_int(conn, sysid, compid, call) ==
    LET p == call.params \o [i \in 1..(7 - Len(call.params)) |-> FloatValue(Dec(0))]
    IN  [fn |-> "mission_item_int_send", conn |-> conn, target_system |-> sysid,
         target_component |-> compid, seq |-> call.seq, frame |-> call.frame, current |-> 0,
         autocontinue |-> 1, command |-> call.command,
         params |-> <<ToFloat(p[1]), ToFloat(p[2]), ToFloat(p[3]), ToFloat(p[4]),
                      ToInt(p[5]), ToInt(p[6]), ToFloat(p[7])>>]

Transmit(conn, sysid, compid, call) ==
    IF call.fn = "command_long_send" THEN send_command_long(conn, sysid, compid, call)
    ELSE send_mission_item_int(conn, sysid, compid, call)

\* send and connections and drone in connections
HasHandle(conns, drone) == DOMAIN conns # {} /\ drone \in DOMAIN conns

\* A slip: the control clause written to the first descriptor of the list.
SetControlOfFirst(gen, control) == [gen EXCEPT ![1] = Updated(@, [control |-> control])]

\* if generated: generated[-1]["control"] = control
SetControl(gen, control) ==
    IF gen = <<>> THEN gen ELSE [gen EXCEPT ![Len(gen)] = Updated(@, [control |-> control])]

RoutingError == "ValueError: drone not found in drone_sys_map"

\* Lines 80-83: the locals before the loop.
compose_and_send_mavlink_start ==
    /\ pc = "compose_call"
    /\ generated' = <<>>
    /\ seq_counter_per_drone' =
          IF "drones" \in DOMAIN mission_json
          THEN [d \in {mission_json.drones[i] : i \in 1..Len(mission_json.drones)} |-> 0]
          ELSE EmptyDict
    /\ compose_i' = 1
    /\ pc' = "compose"
    /\ UNCHANGED <<dsl, exc, seq, mav_calls, returned>>
    /\ UNCHANGED <<parser_vars, validator_vars, composer_args, caller_vars, session_vars>>

\* One iteration of "for step in steps" up to generated.append(md) and the
\* counter's assignment; the routing error and the conversions' exceptions
\* end the call.
compose_and_send_mavlink_step ==
    /\ pc = "compose"
    /\ compose_i <= Len(mission_json.steps)
    /\ LET step == mission_json.steps[compose_i]
           drone == step.drone
       IN  IF drone \notin DOMAIN drone_sys_map
           THEN /\ pc' = "compose_raised"
                /\ exc' = RoutingError
                /\ UNCHANGED <<seq, generated, seq_counter_per_drone>>
           ELSE LET sq == Get(seq_counter_per_drone, drone, 0)
                    r == Compose(step, drone_sys_map[drone][1], drone_sys_map[drone][2], sq)
                IN  /\ seq' = sq
                    /\ IF r.exc # "none"
                       THEN /\ pc' = "compose_raised"
                            /\ exc' = r.exc
                            /\ UNCHANGED <<generated, seq_counter_per_drone>>
                       ELSE /\ pc' = "compose_send"
                            /\ generated' = Append(generated, r.md)
                            /\ seq_counter_per_drone' =
                                  IF r.bump THEN DictSet(seq_counter_per_drone, drone, sq + 1)
                                  ELSE seq_counter_per_drone
                            /\ UNCHANGED exc
    /\ UNCHANGED <<dsl, compose_i, mav_calls, returned>>
    /\ UNCHANGED <<parser_vars, validator_vars, composer_args, caller_vars, session_vars>>

\* The rest of the iteration: the send helper when transmission is on and
\* the drone has a connection, then generated[-1]["control"] = control.
compose_and_send_mavlink_send ==
    /\ pc = "compose_send"
    /\ LET step == mission_json.steps[compose_i]
           drone == step.drone
           call == Compose(step, drone_sys_map[drone][1], drone_sys_map[drone][2], seq).call
       IN  /\ mav_calls' =
                 IF send /\ HasHandle(connections, drone) /\ call.fn # "none"
                 THEN Append(mav_calls, Transmit(connections[drone], drone_sys_map[drone][1],
                                                 drone_sys_map[drone][2], call))
                 ELSE mav_calls
           /\ generated' = SetControl(generated, step.control)
    /\ compose_i' = compose_i + 1
    /\ pc' = "compose"
    /\ UNCHANGED <<dsl, exc, seq, seq_counter_per_drone, returned>>
    /\ UNCHANGED <<parser_vars, validator_vars, composer_args, caller_vars, session_vars>>

\* return generated
compose_and_send_mavlink_return ==
    /\ pc = "compose"
    /\ compose_i > Len(mission_json.steps)
    /\ returned' = generated
    /\ pc' = "composed"
    /\ UNCHANGED <<dsl, exc, compose_i, seq, generated, seq_counter_per_drone, mav_calls>>
    /\ UNCHANGED <<parser_vars, validator_vars, composer_args, caller_vars, session_vars>>

\* The control clauses a caller puts in place of the steps' own.
Controls ==
    {NoControl,
     AfterControl(<<"d", "2">>),
     [after_state |-> W_NONE, after_drone |-> None, until |-> <<"r", "e", "a", "d", "y">>]}

\* The document with every step's control clause replaced.
WithControl(doc, control) ==
    [doc EXCEPT !.steps = IF doc.steps = <<>> THEN <<>>
                          ELSE [i \in 1..Len(doc.steps) |->
                                   [doc.steps[i] EXCEPT !.control = control]]]

\* A second call, with the same arguments but for the control clauses of the
\* document: the locals are fresh (lines 80-83), the first call's outcome
\* and the calls it made on the connections stay with the caller.
compose_and_send_mavlink_again ==
    /\ pc \in {"composed", "compose_raised"}
    /\ earlier_calls = <<>>
    /\ earlier_calls' = <<[mission_json |-> mission_json, pc |-> pc, exc |-> exc,
                           returned |-> returned, mav_calls |-> mav_calls]>>
    /\ \E control \in Controls : mission_json' = WithControl(mission_json, control)
    /\ pc' = "compose_call"
    /\ exc' = "none"
    /\ compose_i' = 0
    /\ seq' = 0
    /\ generated' = <<>>
    /\ seq_counter_per_drone' = EmptyDict
    /\ mav_calls' = <<>>
    /\ returned' = None
    /\ UNCHANGED <<dsl, cmd_i, steps, used_drones, state_counter, diagnostics>>
    /\ UNCHANGED <<validator_vars, composer_args, session_vars>>

----------------------------------------------------------------------------
(* The scripts of the model.                                               *)

\* Instructions that exercise every path of the parser.
ParsePool ==
    {<<W_DRONE, <<"d", "1">>, W_ARM>>,   \* DRONE d1 ARM
     <<W_DRONE, <<"d", "2">>, W_TAKEOFF, <<"a", "l", "t", "=", "1", "0", ".", "5">>, W_AFTER, <<"s", "1">>>>,   \* DRONE d2 TAKEOFF alt=10.5 AFTER s1
     <<W_DRONE, <<"d", "1">>, W_STOP>>,   \* DRONE d1 STOP
     <<W_LAND>>,   \* LAND
     <<<<"F", "L", "Y">>, <<"d", "1">>, W_ARM>>,   \* FLY d1 ARM
     <<W_DRONE, <<"d", "3">>>>,   \* DRONE d3
     <<W_DRONE, <<"d", "0">>, <<"F", "L", "Y">>, <<"x", "=", "1">>>>,   \* DRONE d0 FLY x=1
     <<W_DRONE, <<"d", "1">>, W_GOTO, <<"x", "=", "1", "=", "2">>>>,   \* DRONE d1 GOTO x=1=2
     <<W_DRONE, <<"d", "1">>, W_LAND, W_AFTER>>,   \* DRONE d1 LAND AFTER
     <<W_DRONE, <<"d", "2">>, W_HOLD, <<"t", "=", "5">>, W_UNTIL>>,   \* DRONE d2 HOLD t=5 UNTIL
     <<W_DRONE, <<"d", "2">>, W_GOTO, <<"x", "=", "-", "5">>, <<"y", "=", "7">>, <<"x", "=", "3">>, <<"n", "o", "w">>, W_AFTER, <<"d", "1">>, W_UNTIL, <<"c">>, <<"z", "=", "9">>>>,   \* DRONE d2 GOTO x=-5 y=7 x=3 now AFTER d1 UNTIL c z=9
     <<W_DRONE, <<"d", "1">>, W_WAIT, <<"t", "=", "3">>, W_UNTIL, <<"r", "e", "a", "d", "y">>>>,   \* DRONE d1 WAIT t=3 UNTIL ready
     <<>> }   \* (an empty segment)

\* Instructions that exercise every path of the validator.
ValPool ==
    {<<W_DRONE, <<"d", "1">>, W_TAKEOFF, <<"a", "l", "t", "i", "t", "u", "d", "e", "=", "1", "2", "0">>>>,   \* DRONE d1 TAKEOFF altitude=120
     <<W_DRONE, <<"d", "1">>, W_TAKEOFF>>,   \* DRONE d1 TAKEOFF
     <<W_DRONE, <<"d", "2">>, W_TAKEOFF, <<"a", "l", "t", "=", "1", "2", "0", ".", "5">>>>,   \* DRONE d2 TAKEOFF alt=120.5
     <<W_DRONE, <<"d", "1">>, W_GOTO, <<"x", "=", "3", "0", "0">>, <<"y", "=", "4", "0", "0">>, <<"z", "=", "0">>>>,   \* DRONE d1 GOTO x=300 y=400 z=0
     <<W_DRONE, <<"d", "1">>, W_GOTO, <<"x", "=", "3", "0", "1">>, <<"y", "=", "-", "4", "0", "0">>>>,   \* DRONE d1 GOTO x=301 y=-400
     <<W_DRONE, <<"d", "2">>, W_GOTO, <<"x", "=", "1", "0", "0", "0">>, <<"y", "=", "0">>, <<"z", "=", "-", "5">>>>,   \* DRONE d2 GOTO x=1000 y=0 z=-5
     <<W_DRONE, <<"d", "1">>, W_GOTO, <<"z", "=", "1", "2", "1">>>>,   \* DRONE d1 GOTO z=121
     <<W_DRONE, <<"d", "1">>, W_MOVE, <<"d", "i", "r", "e", "c", "t", "i", "o", "n", "=", "d", "o", "w", "n">>, <<"d", "i", "s", "t", "a", "n", "c", "e", "=", "5">>>>,   \* DRONE d1 MOVE direction=down distance=5
     <<W_DRONE, <<"d", "2">>, W_MOVE, <<"d", "i", "r", "e", "c", "t", "i", "o", "n", "=", "N", "o", "r", "t", "h">>, <<"d", "i", "s", "t", "a", "n", "c", "e", "=", "5", "0", "0", ".", "5">>>>,   \* DRONE d2 MOVE direction=North distance=500.5
     <<W_DRONE, <<"d", "1">>, W_MOVE, <<"d", "i", "r", "e", "c", "t", "i", "o", "n", "=", "s", "o", "u", "t", "h", "w", "e", "s", "t">>, <<"d", "i", "s", "t", "a", "n", "c", "e", "=", "1", "0">>>>,   \* DRONE d1 MOVE direction=southwest distance=10
     <<W_DRONE, <<"d", "1">>, W_MOVE, <<"d", "i", "r", "e", "c", "t", "i", "o", "n", "=", "7">>, <<"d", "i", "s", "t", "a", "n", "c", "e", "=", "1", "0">>>>,   \* DRONE d1 MOVE direction=7 distance=10
     <<W_DRONE, <<"d", "1">>, W_MOVE, <<"d", "i", "r", "e", "c", "t", "i", "o", "n", "=", "u", "p">>, <<"d", "i", "s", "t", "a", "n", "c", "e", "=", "f", "a", "r">>>>,   \* DRONE d1 MOVE direction=up distance=far
     <<W_DRONE, <<"d", "1">>, W_LAND>>,   \* DRONE d1 LAND
     <<W_DRONE, <<"d", "2">>, W_HOLD>> }   \* DRONE d2 HOLD

\* The characters of the generated parameter values.
ValueAlphabet == {"-", "+", ".", "0", "1", "a", "="}

RECURSIVE TextsUpTo(_, _)
TextsUpTo(alphabet, n) ==
    IF n = 0 THEN {<<>>}
    ELSE LET shorter == TextsUpTo(alphabet, n - 1)
         IN  shorter \cup {Append(t, c) : t \in shorter, c \in alphabet}

\* DRONE d1 GOTO z=<value>, for every value over ValueAlphabet.
ParamPool == {<<W_DRONE, <<"d", "1">>, W_GOTO, <<"z", "=">> \o v>> : v \in TextsUpTo(ValueAlphabet, MaxValueLen)}

RECURSIVE SeqsUpTo(_, _)
SeqsUpTo(S, n) ==
    IF n = 0 THEN {<<>>}
    ELSE LET shorter == SeqsUpTo(S, n - 1)
         IN  shorter \cup {Append(q, x) : q \in shorter, x \in S}

Scripts == SeqsUpTo(ParsePool, MaxCmds) \cup SeqsUpTo(ValPool, MaxValCmds) \cup {<<c>> : c \in ParamPool}

\* The documents handed to compose_and_send_mavlink.
D1 == <<"d", "1">>

D2 == <<"d", "2">>

D3 == <<"d", "3">>

Dict1(k, v) == DictSet(EmptyDict, k, v)

Dict2(k1, v1, k2, v2) == DictSet(Dict1(k1, v1), k2, v2)

Dict3(k1, v1, k2, v2, k3, v3) == DictSet(Dict2(k1, v1, k2, v2), k3, v3)

Template(drone, action, params, control) ==
    [drone |-> drone, action |-> action, params |-> params, control |-> control]

\* Steps that exercise every branch of the composer.
ComposePool ==
    {Template(D1, W_ARM, EmptyDict, NoControl),
     Template(D1, W_TAKEOFF, Dict1(K_alt, IntValue(15)), AfterControl(<<"s", "1">>)),
     Template(D2, W_TAKEOFF, EmptyDict, AfterControl(D1)),
     Template(D3, W_TAKEOFF, Dict2(K_z, IntValue(5), K_lat, FloatValue([m |-> 15, f |-> 1])), NoControl),
     Template(D1, W_TAKEOFF, Dict1(K_alt, StrValue(<<"h", "i", "g", "h">>)), NoControl),
     Template(D1, W_GOTO, Dict3(K_lat, FloatValue([m |-> 15, f |-> 1]), K_lon, IntValue(-2), K_alt, IntValue(15)),
              AfterControl(<<"s", "2">>)),
     Template(D1, W_GOTO, Dict2(K_x, IntValue(1), K_y, IntValue(2)), NoControl),
     Template(D1, W_LAND, Dict1(K_z, IntValue(4)), NoControl),
     Template(D2, W_DISARM, EmptyDict, NoControl),
     Template(D1, W_SPEED, Dict1(K_speed, IntValue(5)), NoControl),
     Template(D2, W_YAW, Dict2(K_yaw, IntValue(90), K_relative, IntValue(0)), NoControl),
     Template(D2, W_HOLD, Dict1(K_time, IntValue(5)),
              [after_state |-> W_NONE, after_drone |-> None, until |-> <<"r", "e", "a", "d", "y">>]),
     Template(D1, W_RETURN, EmptyDict, NoControl),
     Template(D2, W_CIRCLE, Dict2(K_turns, IntValue(2), K_alt, IntValue(7)), NoControl),
     Template(D1, W_FOLLOW, Dict1(K_target, StrValue(D2)), NoControl),
     Template(D2, W_FOLLOW, EmptyDict, NoControl),
     Template(D1, W_WAIT, Dict1(K_t, IntValue(3)), AfterControl(D2)),
     Template(D1, W_MOVE, Dict1(K_distance, IntValue(5)), NoControl)}

\* A document of the parser's shape: state ids s1, s2, ... in order; drones
\* lists d1 and d2, so that a step of d3 is of a drone the list leaves out.
Document(ts) ==
    [mission_id |-> W_mission_auto,
     drones |-> <<D1, D2>>,
     steps |-> IF ts = <<>> THEN <<>>
               ELSE [i \in 1..Len(ts) |->
                        [state_id |-> StateId(i), drone |-> ts[i].drone, action |-> ts[i].action,
                         params |-> ts[i].params, control |-> ts[i].control,
                         next |-> IF i < Len(ts) THEN StateId(i + 1) ELSE None]]]

Documents == {Document(ts) : ts \in SeqsUpTo(ComposePool, MaxSteps)}

\* Routing maps: the whole fleet, and d1 alone.
SysMaps ==
    {[d \in {D1, D2, D3} |-> IF d = D1 THEN <<1, 1>> ELSE IF d = D2 THEN <<2, 1>> ELSE <<3, 1>>],
     [d \in {D1} |-> <<1, 1>>]}

Connection(d) == <<"conn", d>>

\* The send flag and the connections of a call.
Transports ==
    {[send |-> FALSE, connections |-> None],
     [send |-> TRUE, connections |-> None],
     [send |-> FALSE, connections |-> [d \in {D1, D2, D3} |-> Connection(d)]],
     [send |-> TRUE, connections |-> [d \in {D1, D2, D3} |-> Connection(d)]],
     [send |-> TRUE, connections |-> [d \in {D1} |-> Connection(d)]]}

----------------------------------------------------------------------------
(* The pipeline.                                                           *)

Init ==
    /\ dsl \in Scripts
    /\ pc = "parse"
    /\ exc = "none"
    /\ cmd_i = 1
    /\ steps = <<>>
    /\ used_drones = {}
    /\ state_counter = 1
    /\ diagnostics = <<>>
    /\ mission_json = None
    /\ step_i = 0
    /\ current_state = None
    /\ all_issues = <<>>
    /\ log_buffer = <<>>
    /\ drone_sys_map = EmptyDict
    /\ connections = None
    /\ send = FALSE
    /\ compose_i = 0
    /\ seq = 0
    /\ generated = <<>>
    /\ seq_counter_per_drone = EmptyDict
    /\ mav_calls = <<>>
    /\ returned = None
    /\ earlier_calls = <<>>
    /\ current_dsl = None
    /\ attempt = 0
    /\ choice = None
    /\ llm_calls = <<>>
    /\ validation_calls = <<>>
    /\ report = <<>>
    /\ visualized = <<>>

Next ==
    \/ dsl_to_json_cmd
    \/ dsl_to_json_return
    \/ run_validation_start
    \/ run_validation_step
    \/ run_validation_return

Spec == Init /\ [][Next]_vars

----------------------------------------------------------------------------
(* The composer, called on a document.                                     *)

ComposeInit ==
    /\ dsl = <<>>
    /\ pc = "compose_call"
    /\ exc = "none"
    /\ cmd_i = 1
    /\ steps = <<>>
    /\ used_drones = {}
    /\ state_counter = 1
    /\ diagnostics = <<>>
    /\ mission_json \in Documents
    /\ step_i = 0
    /\ current_state = None
    /\ all_issues = <<>>
    /\ log_buffer = <<>>
    /\ drone_sys_map \in SysMaps
    /\ \E t \in Transports : connections = t.connections /\ send = t.send
    /\ compose_i = 0
    /\ seq = 0
    /\ generated = <<>>
    /\ seq_counter_per_drone = EmptyDict
    /\ mav_calls = <<>>
    /\ returned = None
    /\ earlier_calls = <<>>
    /\ current_dsl = None
    /\ attempt = 0
    /\ choice = None
    /\ llm_calls = <<>>
    /\ validation_calls = <<>>
    /\ report = <<>>
    /\ visualized = <<>>

ComposeNext ==
    \/ compose_and_send_mavlink_start
    \/ compose_and_send_mavlink_step
    \/ compose_and_send_mavlink_send
    \/ compose_and_send_mavlink_return

ComposeSpec == ComposeInit /\ [][ComposeNext]_vars

----------------------------------------------------------------------------
(* The composer, called twice.                                             *)

\* The steps of the documents called twice.
TwinPool == {t \in ComposePool : t.action \in {W_ARM, W_TAKEOFF, W_GOTO, W_HOLD, W_WAIT, W_MOVE}}

TwinDocuments == {Document(ts) : ts \in SeqsUpTo(TwinPool, MaxSteps)}

TwinInit ==
    /\ dsl = <<>>
    /\ pc = "compose_call"
    /\ exc = "none"
    /\ cmd_i = 1
    /\ steps = <<>>
    /\ used_drones = {}
    /\ state_counter = 1
    /\ diagnostics = <<>>
    /\ mission_json \in TwinDocuments
    /\ step_i = 0
    /\ current_state = None
    /\ all_issues = <<>>
    /\ log_buffer = <<>>
    /\ drone_sys_map \in SysMaps
    /\ \E t \in Transports : connections = t.connections /\ send = t.send
    /\ compose_i = 0
    /\ seq = 0
    /\ generated = <<>>
    /\ seq_counter_per_drone = EmptyDict
    /\ mav_calls = <<>>
    /\ returned = None
    /\ earlier_calls = <<>>
    /\ current_dsl = None
    /\ attempt = 0
    /\ choice = None
    /\ llm_calls = <<>>
    /\ validation_calls = <<>>
    /\ report = <<>>
    /\ visualized = <<>>

TwinNext ==
    \/ compose_and_send_mavlink_start
    \/ compose_and_send_mavlink_step
    \/ compose_and_send_mavlink_send
    \/ compose_and_send_mavlink_return
    \/ compose_and_send_mavlink_again

TwinSpec == TwinInit /\ [][TwinNext]_vars

----------------------------------------------------------------------------
(* interactive_pipeline.py: interactive_session.                           *)

max_retries == 3

\* A script the text generator wrote, with what the pipeline does with it:
\* dsl_to_json raises on it, returns a document without steps, or returns
\* steps, and then run_validation passes them, finds issues, or raises.
Plan(text, parse, verdict) == [text |-> text, parse |-> parse, verdict |-> verdict]

Plans ==
    {Plan("unparsable", "raises", "none"),
     Plan("blank", "no_steps", "none"),
     Plan("safe", "steps", "pass"),
     Plan("safe as well", "steps", "pass"),
     Plan("unsafe", "steps", "fail"),
     Plan("ill-valued", "steps", "raises")}

\* provider.generate raises RuntimeError when the generation fails: a call
\* of nl_to_dsl, repair_dsl_with_error, explain_dsl or refine_dsl is
\* answered with a script or ends with this exception.
GenerationFailed == "RuntimeError"

\* mission_json = dsl_to_json(current_dsl), and the test of its steps:
\* success is False after an exception of dsl_to_json, which leaves
\* mission_json as it was, or after "No steps.".
ParseAttempt(plan, old) ==
    IF plan.parse = "raises" THEN [success |-> FALSE, mission_json |-> old]
    ELSE IF plan.parse = "no_steps"
    THEN [success |-> FALSE, mission_json |-> [dsl |-> plan, steps |-> 0]]
    ELSE [success |-> TRUE, mission_json |-> [dsl |-> plan, steps |-> 1]]

\* errors, logs = run_validation(mission_json)
RunValidation(doc) ==
    IF doc.dsl.verdict = "raises" THEN [raised |-> TRUE, errors |-> <<>>, logs |-> <<>>]
    ELSE [raised |-> FALSE,
          errors |-> IF doc.dsl.verdict = "fail" THEN <<"issue">> ELSE <<>>,
          logs |-> <<"log", doc.dsl.text>>]

\* A slip: the safety failure never taken.
FailedNever(errors) == FALSE

\* if errors:
Failed(errors) == errors # <<>>

\* The refine_dsl calls made so far.
Changes == Len(SelectSeq(llm_calls, LAMBDA c : c = "refine_dsl"))

\* Lines 11-17: the request, and the first plan.
interactive_session_start ==
    /\ pc = "session_call"
    /\ \E user_text \in {"", "request"}, out \in Plans, answered \in BOOLEAN :
          IF user_text = ""
          THEN /\ pc' = "session_quit"
               /\ UNCHANGED <<exc, current_dsl, llm_calls>>
          ELSE /\ llm_calls' = Append(llm_calls, "nl_to_dsl")
               /\ IF ~answered
                  THEN /\ pc' = "session_raised"
                       /\ exc' = GenerationFailed
                       /\ UNCHANGED current_dsl
                  ELSE /\ pc' = "session_parse"
                       /\ current_dsl' = out
                       /\ UNCHANGED exc
    /\ UNCHANGED <<attempt, choice, validation_calls, report, visualized>>
    /\ UNCHANGED <<dsl, parser_vars, validator_vars, composer_args, composer_vars, caller_vars>>

\* Lines 21-43: one iteration of "for attempt in range(max_retries)", and
\* after a success the display of the plan with explain_dsl.
interactive_session_parse ==
    /\ pc = "session_parse"
    /\ \E out \in Plans, answered \in BOOLEAN :
          LET r == ParseAttempt(current_dsl, mission_json)
          IN  /\ mission_json' = r.mission_json
              /\ IF r.success
                 THEN /\ llm_calls' = Append(llm_calls, "explain_dsl")
                      /\ IF ~answered
                         THEN pc' = "session_raised" /\ exc' = GenerationFailed
                         ELSE pc' = "session_choice" /\ UNCHANGED exc
                      /\ UNCHANGED <<current_dsl, attempt>>
                 ELSE IF attempt < max_retries - 1
                 THEN /\ llm_calls' = Append(llm_calls, "repair_dsl_with_error")
                      /\ IF ~answered
                         THEN /\ pc' = "session_raised"
                              /\ exc' = GenerationFailed
                              /\ UNCHANGED <<current_dsl, attempt>>
                         ELSE /\ current_dsl' = out
                              /\ attempt' = attempt + 1
                              /\ UNCHANGED <<pc, exc>>
                 ELSE /\ pc' = "session_unfixed"
                      /\ UNCHANGED <<exc, current_dsl, attempt, llm_calls>>
    /\ UNCHANGED <<choice, validation_calls, report, visualized>>
    /\ UNCHANGED <<dsl, cmd_i, steps, used_drones, state_counter, diagnostics>>
    /\ UNCHANGED <<validator_vars, composer_args, composer_vars, caller_vars>>

\* Lines 46-80: one iteration of the decision loop.
interactive_session_choice ==
    /\ pc = "session_choice"
    /\ \E input \in {"y", "n", "c", "x"}, feedback \in {"", "faster"}, out \in Plans,
          answered \in BOOLEAN :
          /\ (input = "c" /\ feedback # "") => Changes < MaxChanges
          /\ choice' = input
          /\ IF input = "y"
             THEN LET v == RunValidation(mission_json)
                  IN  /\ validation_calls' = Append(validation_calls, mission_json)
                      /\ IF v.raised
                         THEN /\ pc' = "session_raised"
                              /\ exc' = "ValueError"
                              /\ UNCHANGED <<report, visualized>>
                         ELSE /\ report' = Append(report, v.logs)
                              /\ UNCHANGED exc
                              /\ IF Failed(v.errors)
                                 THEN pc' = "session_unsafe" /\ UNCHANGED visualized
                                 ELSE /\ pc' = "session_launched"
                                      /\ visualized' = Append(visualized, mission_json)
                      /\ UNCHANGED <<current_dsl, attempt, llm_calls, mission_json>>
             ELSE IF input = "n"
             THEN /\ pc' = "session_aborted"
                  /\ UNCHANGED <<exc, current_dsl, attempt, llm_calls, validation_calls, report,
                                 visualized, mission_json>>
             ELSE IF input = "c" /\ feedback # ""
             THEN /\ llm_calls' = Append(llm_calls, "refine_dsl")
                  /\ IF ~answered
                     THEN /\ pc' = "session_raised"
                          /\ exc' = GenerationFailed
                          /\ UNCHANGED <<current_dsl, attempt, mission_json>>
                     ELSE /\ pc' = "session_parse"
                          /\ current_dsl' = out
                          /\ attempt' = 0
                          /\ mission_json' = None
                          /\ UNCHANGED exc
                  /\ UNCHANGED <<validation_calls, report, visualized>>
             ELSE UNCHANGED <<pc, exc, current_dsl, attempt, llm_calls, validation_calls, report,
                              visualized, mission_json>>
    /\ UNCHANGED <<dsl, cmd_i, steps, used_drones, state_counter, diagnostics>>
    /\ UNCHANGED <<validator_vars, composer_args, composer_vars, caller_vars>>

SessionInit ==
    /\ dsl = <<>>
    /\ pc = "session_call"
    /\ exc = "none"
    /\ cmd_i = 1
    /\ steps = <<>>
    /\ used_drones = {}
    /\ state_counter = 1
    /\ diagnostics = <<>>
    /\ mission_json = None
    /\ step_i = 0
    /\ current_state = None
    /\ all_issues = <<>>
    /\ log_buffer = <<>>
    /\ drone_sys_map = EmptyDict
    /\ connections = None
    /\ send = FALSE
    /\ compose_i = 0
    /\ seq = 0
    /\ generated = <<>>
    /\ seq_counter_per_drone = EmptyDict
    /\ mav_calls = <<>>
    /\ returned = None
    /\ earlier_calls = <<>>
    /\ current_dsl = None
    /\ attempt = 0
    /\ choice = None
    /\ llm_calls = <<>>
    /\ validation_calls = <<>>
    /\ report = <<>>
    /\ visualized = <<>>

SessionNext ==
    \/ interactive_session_start
    \/ interactive_session_parse
    \/ interactive_session_choice

SessionSpec == SessionInit /\ [][SessionNext]_vars

----------------------------------------------------------------------------
(* What the claims speak of, stated from the script alone.                 *)

\* The instructions the for loop of dsl_to_json has finished with.
Processed == SubSeq(raw_cmds, 1, cmd_i - 1)

\* A well-formed instruction: DRONE <id> <ACTION> with a known action or STOP.
Accepted(cmd) ==
    /\ Len(cmd) >= 3
    /\ cmd[1] = W_DRONE
    /\ cmd[3] \in ACTION_KEYWORDS \cup {W_STOP}

AcceptedCmds == SelectSeq(Processed, Accepted)

DroppedCmds == SelectSeq(Processed, LAMBDA c : ~Accepted(c))

IsControlWord(tok) == tok = W_AFTER \/ tok = W_UNTIL

\* The position of the first AFTER/UNTIL after the action, or Len(cmd) + 1.
FirstControl(cmd) ==
    LET at == {j \in 4..Len(cmd) : IsControlWord(cmd[j])}
    IN  IF at = {} THEN Len(cmd) + 1 ELSE CHOOSE j \in at : \A k \in at : j <= k

EqPos(tok) == CHOOSE j \in 1..Len(tok) : tok[j] = "="

KeyOf(tok) == SubSeq(tok, 1, EqPos(tok) - 1)

TextOf(tok) == SubSeq(tok, EqPos(tok) + 1, Len(tok))

\* The text is an optional minus sign, digits and an optional decimal part.
IsNumberText(v) ==
    LET b == IF v # <<>> /\ v[1] = "-" THEN Tail(v) ELSE v
        dots == {i \in 1..Len(b) : b[i] = "."}
    IN  /\ b # <<>>
        /\ \A i \in 1..Len(b) : IsDigit(b[i]) \/ b[i] = "."
        /\ Cardinality(dots) <= 1
        /\ \A d \in dots : 1 < d /\ d < Len(b)

\* The stored value val is what the text v stands for.
ValueMatches(val, v) ==
    LET neg == v # <<>> /\ v[1] = "-"
        b == IF neg THEN Tail(v) ELSE v
        sign == IF neg THEN -1 ELSE 1
        digits == SelectSeq(b, IsDigit)
        nfrac == IF \E i \in 1..Len(b) : b[i] = "."
                 THEN Len(b) - (CHOOSE i \in 1..Len(b) : b[i] = ".")
                 ELSE 0
    IN  IF ~IsNumberText(v) THEN val.t = "str" /\ val.s = v
        ELSE IF nfrac = 0 THEN val.t = "int" /\ val.f = 0 /\ val.m = sign * DigitsValue(digits)
        ELSE /\ val.t = "float"
             /\ val.f <= nfrac
             /\ val.m * Pow10(nfrac - val.f) = sign * DigitsValue(digits)

\* The control record the claim gives an instruction.
ExpectedControl(cmd) ==
    LET j == FirstControl(cmd) IN
    IF j > Len(cmd) THEN [after_state |-> W_NONE, after_drone |-> None, until |-> None]
    ELSE IF cmd[j] = W_UNTIL THEN [after_state |-> W_NONE, after_drone |-> None, until |-> cmd[j + 1]]
    ELSE IF cmd[j + 1][1] = "s" THEN [after_state |-> cmd[j + 1], after_drone |-> None, until |-> None]
    ELSE [after_state |-> W_NONE, after_drone |-> cmd[j + 1], until |-> None]

Range(q) == {q[i] : i \in 1..Len(q)}

\* The checks on a predicted position, in exact arithmetic on the decimals.
ZBelow(z, limit) == z.m < limit * Pow10(z.f)

ZAbove(z, limit) == z.m > limit * Pow10(z.f)

PlanarBeyond(x, y, radius) ==
    LET f == MaxOf(x.f, y.f)
        xs == x.m * Pow10(f - x.f)
        ys == y.m * Pow10(f - y.f)
    IN  xs * xs + ys * ys > radius * radius * Pow10(f) * Pow10(f)

TakeoffWithoutAltitude(step) ==
    step.action = W_TAKEOFF /\ K_altitude \notin DOMAIN step.params /\ K_alt \notin DOMAIN step.params

IssueIf(cond, k, check) == IF cond THEN <<[step |-> k, check |-> check]>> ELSE <<>>

\* The issues step k must yield when its predicted position is pos.
ExpectedIssues(k, step, pos) ==
    IssueIf(TakeoffWithoutAltitude(step), k, "required_param")
    \o IssueIf(ZBelow(pos[3], 0), k, "min_altitude")
    \o IssueIf(ZAbove(pos[3], 120), k, "max_altitude")
    \o IssueIf(PlanarBeyond(pos[1], pos[2], 500), k, "geofence")

----------------------------------------------------------------------------
(* The claims.                                                             *)

\* C1: dsl_to_json raises no exception on any script; a malformed
\* instruction is at worst skipped.  (Stated as the claim; the code raises.)
C1_NeverRaises == pc # "parse_raised"

\* C2: in the returned document every step but the last has next equal to
\* the state_id of the step after it, and the last step has next = None.
\* (Stated as the claim; the code breaks it after a dropped instruction.)
C2_NextChain ==
    pc = "parsed" =>
        \A i \in 1..Len(mission_json.steps) :
            mission_json.steps[i].next =
                IF i < Len(mission_json.steps) THEN mission_json.steps[i + 1].state_id ELSE None

\* C3: one step per accepted instruction and none per dropped one, in script
\* order, the i-th step having state_id "s<i>".
C3_StepPerAccepted ==
    /\ Len(steps) = Len(AcceptedCmds)
    /\ \A i \in 1..Len(steps) :
          /\ steps[i].state_id = <<"s">> \o NatToStr(i)
          /\ steps[i].drone = AcceptedCmds[i][2]
          /\ steps[i].action = AcceptedCmds[i][3] \/ AcceptedCmds[i][3] = W_STOP
    /\ pc = "parsed" => mission_json.steps = steps

C3_Witness ==
    /\ pc = "parsed"
    /\ Len(raw_cmds) = 3
    /\ Accepted(raw_cmds[1]) /\ ~Accepted(raw_cmds[2]) /\ Accepted(raw_cmds[3])
    /\ Len(mission_json.steps) = 2
    /\ mission_json.steps[2].state_id = <<"s", "2">>

\* C4: every step's action is in ACTION_KEYWORDS; STOP yields a HOLD step and
\* any other token outside the set yields no step.
C4_ActionsClosed ==
    /\ \A i \in 1..Len(steps) :
          /\ steps[i].action \in ACTION_KEYWORDS
          /\ steps[i].action = IF AcceptedCmds[i][3] = W_STOP THEN W_HOLD ELSE AcceptedCmds[i][3]
    /\ Len(steps) = Cardinality({j \in 1..Len(Processed) : Accepted(Processed[j])})

C4_Witness ==
    /\ pc = "parsed"
    /\ \E j \in 1..Len(raw_cmds) :
          Len(raw_cmds[j]) >= 3 /\ raw_cmds[j][1] = W_DRONE /\ ~Accepted(raw_cmds[j])
    /\ \E i \in 1..Len(steps) : AcceptedCmds[i][3] = W_STOP /\ steps[i].action = W_HOLD

\* C5: exactly one diagnostic per dropped non-empty instruction, none per
\* accepted one; a dropped instruction yields no step.
C5_OneDiagnosticPerDrop ==
    /\ Len(diagnostics) = Len(DroppedCmds)
    /\ \A i \in 1..Len(diagnostics) : diagnostics[i].cmd = DroppedCmds[i]
    /\ Len(steps) + Len(diagnostics) = Len(Processed)

C5_Witness ==
    /\ pc = "parsed"
    /\ Len(raw_cmds) = 2
    /\ Accepted(raw_cmds[1]) /\ raw_cmds[2][1] # W_DRONE
    /\ Len(mission_json.steps) = 1
    /\ Len(diagnostics) = 1

\* C6: drones is sorted, has no duplicates and is exactly the set of the
\* drone ids of the document's steps.  (Stated as the claim; the code also
\* lists the drone of an instruction dropped for its action.)
C6_DronesOfSteps ==
    pc = "parsed" =>
        /\ Range(mission_json.drones) = {mission_json.steps[i].drone : i \in 1..Len(mission_json.steps)}
        /\ \A i \in 1..(Len(mission_json.drones) - 1) :
              StrLess(mission_json.drones[i], mission_json.drones[i + 1])

\* C7: each step's control record is the one alternative its instruction
\* selects (first AFTER/UNTIL only), and at most one of its fields is set.
C7_OneControl ==
    \A i \in 1..Len(steps) :
        /\ steps[i].control = ExpectedControl(AcceptedCmds[i])
        /\ Cardinality({n \in {"after_state", "after_drone", "until"} :
                            \/ n = "after_state" /\ steps[i].control.after_state # W_NONE
                            \/ n = "after_drone" /\ steps[i].control.after_drone # None
                            \/ n = "until" /\ steps[i].control.until # None}) <= 1

C7_Witness ==
    /\ pc = "parsed"
    /\ Len(steps) = 3
    /\ steps[1].control = [after_state |-> <<"s", "1">>, after_drone |-> None, until |-> None]
    /\ steps[2].control = [after_state |-> W_NONE, after_drone |-> <<"d", "1">>, until |-> None]
    /\ FirstControl(AcceptedCmds[2]) + 1 < Len(AcceptedCmds[2])
    /\ steps[3].control = [after_state |-> W_NONE, after_drone |-> None, until |-> <<"r", "e", "a", "d", "y">>]

\* C8: params holds the key=value tokens before the first AFTER/UNTIL, the
\* last value of a repeated key, numbers coerced and other text kept.
C8_ParamsCoerced ==
    \A i \in 1..Len(steps) :
        LET src == AcceptedCmds[i]
            p == steps[i].params
            kv == {j \in 4..(FirstControl(src) - 1) : Contains(src[j], <<"=">>)}
        IN  /\ DOMAIN p = {KeyOf(src[j]) : j \in kv}
            /\ \A k \in DOMAIN p :
                  LET last == CHOOSE j \in kv : KeyOf(src[j]) = k
                                                /\ \A h \in kv : KeyOf(src[h]) = k => h <= j
                  IN  /\ p[k].t \in {"int", "float", "str"}
                      /\ ValueMatches(p[k], TextOf(src[last]))

C8_Witness ==
    /\ pc = "parsed"
    /\ Len(steps) = 2
    /\ steps[1].params = [k \in {K_alt} |-> [t |-> "float", m |-> 105, f |-> 1, s |-> <<>>]]
    /\ DOMAIN steps[2].params = {K_x, K_y}
    /\ steps[2].params[K_x] = [t |-> "int", m |-> 3, f |-> 0, s |-> <<>>]

\* C9: every step gets all four checks, in the order required-parameter,
\* minimum-altitude, maximum-altitude, geofence; no issue stops a later
\* check or a later step, and the returned list is the concatenation of the
\* per-step lists.
C9_AllChecksInOrder ==
    [][ /\ (pc = "parsed" /\ pc' = "validate") => (all_issues' = <<>> /\ step_i' = 1)
        /\ (pc = "validate" /\ pc' = "validate") =>
              /\ step_i' = step_i + 1
              /\ all_issues' = all_issues \o ExpectedIssues(step_i, mission_json.steps[step_i], current_state')
        /\ (pc = "validate" /\ pc' = "validated") =>
              /\ step_i = Len(mission_json.steps) + 1
              /\ all_issues' = all_issues ]_vars

C9_Witness ==
    /\ pc = "validated"
    /\ all_issues = <<[step |-> 1, check |-> "min_altitude"], [step |-> 1, check |-> "geofence"],
                      [step |-> 2, check |-> "required_param"], [step |-> 2, check |-> "geofence"]>>

\* C10: for the step just checked, a minimum-altitude issue iff z < 0, a
\* maximum-altitude issue iff z > 120, a geofence issue iff x*x + y*y >
\* 500*500; the mission passes exactly when no check of any step failed.
C10_IssueIffLimit ==
    /\ (pc \in {"validate", "validated"} /\ step_i > 1) =>
          LET k == step_i - 1
              has(check) == [step |-> k, check |-> check] \in Range(all_issues)
          IN  /\ has("min_altitude") <=> ZBelow(current_state[3], 0)
              /\ has("max_altitude") <=> ZAbove(current_state[3], 120)
              /\ has("geofence") <=> PlanarBeyond(current_state[1], current_state[2], 500)
    /\ pc = "validated" =>
          (all_issues = <<>> <=> \A i \in 1..Len(log_buffer) : log_buffer[i].tag[Len(log_buffer[i].tag)] # "fail")

C10_Witness ==
    /\ pc = "validated"
    /\ current_state = <<[m |-> 300, f |-> 0], [m |-> 400, f |-> 0], [m |-> 120, f |-> 0]>>
    /\ all_issues = <<>>

----------------------------------------------------------------------------
(* The validator's position, stated from the document alone.               *)

\* The number a params value stands for, as mantissa and fractional digits.
NumberOf(v) ==
    LET signed == v.s # <<>> /\ v.s[1] \in {"+", "-"}
        b == IF signed THEN Tail(v.s) ELSE v.s
        sign == IF signed /\ v.s[1] = "-" THEN -1 ELSE 1
        digits == SelectSeq(b, IsDigit)
        nfrac == IF \E i \in 1..Len(b) : b[i] = "."
                 THEN Len(b) - (CHOOSE i \in 1..Len(b) : b[i] = ".")
                 ELSE 0
    IN  IF v.t = "str" THEN [m |-> sign * DigitsValue(digits), f |-> nfrac]
        ELSE [m |-> v.m, f |-> v.f]

SameNumber(a, b) == a.m * Pow10(b.f) = b.m * Pow10(a.f)

\* c = a + sign * b
SumIs(c, a, sign, b) ==
    LET f == MaxOf(MaxOf(a.f, b.f), c.f)
    IN  c.m * Pow10(f - c.f) = a.m * Pow10(f - a.f) + sign * b.m * Pow10(f - b.f)

Zero == [m |-> 0, f |-> 0]

\* Axis n of pos is replaced by a number equal to a + sign * b.
AxisMoved(new, old, n, sign, b) ==
    /\ \A k \in {1, 2, 3} \ {n} : new[k] = old[k]
    /\ SumIs(new[n], old[n], sign, b)

\* The direction keyword of a MOVE step, upper-cased; None when the value is
\* absent or is not text.
DirectionWord(p) ==
    IF K_direction \in DOMAIN p /\ p[K_direction].t = "str" THEN Upper(p[K_direction].s) ELSE None

DistanceOf(p) == IF K_distance \in DOMAIN p THEN NumberOf(p[K_distance]) ELSE Zero

\* C11: the position starts at (0,0,0); TAKEOFF sets z to altitude, else alt,
\* else 10 (and then the required-parameter issue is recorded) and keeps x, y;
\* GOTO overwrites each present axis and keeps each absent one; LAND sets z
\* to 0 and keeps x, y; an action other than TAKEOFF, GOTO, MOVE and LAND
\* keeps all three axes.
C11_PositionAfterStep ==
    [][ /\ (pc = "parsed" /\ pc' = "validate") => current_state' = <<Zero, Zero, Zero>>
        /\ (pc = "validate" /\ pc' = "validate") =>
              LET step == mission_json.steps[step_i]
                  p == step.params
                  old == current_state
                  new == current_state'
                  axis(n, key) == IF key \in DOMAIN p THEN SameNumber(new[n], NumberOf(p[key]))
                                  ELSE new[n] = old[n]
              IN  /\ step.action = W_TAKEOFF =>
                        /\ new[1] = old[1] /\ new[2] = old[2]
                        /\ IF K_altitude \in DOMAIN p THEN SameNumber(new[3], NumberOf(p[K_altitude]))
                           ELSE IF K_alt \in DOMAIN p THEN SameNumber(new[3], NumberOf(p[K_alt]))
                           ELSE /\ new[3] = [m |-> 10, f |-> 0]
                                /\ [step |-> step_i, check |-> "required_param"] \in Range(all_issues')
                  /\ step.action = W_GOTO => axis(1, K_x) /\ axis(2, K_y) /\ axis(3, K_z)
                  /\ step.action = W_LAND => new = <<old[1], old[2], Zero>>
                  /\ step.action \notin {W_TAKEOFF, W_GOTO, W_MOVE, W_LAND} => new = old ]_vars

C11_Witness ==
    /\ pc = "validated"
    /\ Len(mission_json.steps) = 2
    /\ mission_json.steps[1].action = W_TAKEOFF /\ DOMAIN mission_json.steps[1].params = {}
    /\ mission_json.steps[2].action = W_GOTO /\ DOMAIN mission_json.steps[2].params = {K_x, K_y}
    /\ current_state = <<[m |-> 301, f |-> 0], [m |-> -400, f |-> 0], [m |-> 10, f |-> 0]>>
    /\ [step |-> 1, check |-> "required_param"] \in Range(all_issues)

\* C12: a MOVE step changes exactly one axis by distance (0 when absent) and
\* keeps the other two: NORTH +y, SOUTH -y, EAST +x, WEST -x, UP +z, DOWN -z,
\* in any letter case; a direction that is none of the six keywords changes
\* no axis.  (Stated as the claim; the code looks for the keywords inside the
\* direction text.)
C12_MoveOneAxis ==
    [][ (pc = "validate" /\ pc' = "validate" /\ mission_json.steps[step_i].action = W_MOVE) =>
            LET p == mission_json.steps[step_i].params
                w == DirectionWord(p)
                d == DistanceOf(p)
                old == current_state
                new == current_state'
            IN  IF w = W_NORTH THEN AxisMoved(new, old, 2, 1, d)
                ELSE IF w = W_SOUTH THEN AxisMoved(new, old, 2, -1, d)
                ELSE IF w = W_EAST THEN AxisMoved(new, old, 1, 1, d)
                ELSE IF w = W_WEST THEN AxisMoved(new, old, 1, -1, d)
                ELSE IF w = W_UP THEN AxisMoved(new, old, 3, 1, d)
                ELSE IF w = W_DOWN THEN AxisMoved(new, old, 3, -1, d)
                ELSE new = old ]_vars

\* C13: validation never changes the document (nor anything the parser
\* built); only the validator's position, its issues and its loop index
\* change, and the audit log only grows: lines already appended stay as they
\* are.
C13_DocumentUntouched ==
    [][ (pc = "parsed" \/ pc = "validate") =>
            /\ mission_json' = mission_json
            /\ dsl' = dsl
            /\ steps' = steps /\ used_drones' = used_drones /\ diagnostics' = diagnostics
            /\ Len(log_buffer') >= Len(log_buffer)
            /\ SubSeq(log_buffer', 1, Len(log_buffer)) = log_buffer ]_vars

C13_Witness ==
    /\ pc = "validated"
    /\ Len(mission_json.steps) = 2
    /\ mission_json.steps = steps
    /\ Len(log_buffer) >= 18
    /\ current_state # <<Zero, Zero, Zero>>

\* C14: run_validation returns for every document dsl_to_json can return: a
\* text value of altitude, alt, x, y, z or distance is reported in issues,
\* never raised.  (Stated as the claim; float() of such a value raises.)
C14_ValidationReturns == pc \in {"validate", "validate_raised"} => exc = "none"

----------------------------------------------------------------------------
(* The composer's claims, stated from the document and the call's          *)
(* arguments alone.                                                        *)

ComposeSteps == mission_json.steps

Mapped(i) == ComposeSteps[i].drone \in DOMAIN drone_sys_map

\* The position of the first step whose drone the routing map lacks, or 0.
FirstUnmapped ==
    LET at == {i \in 1..Len(ComposeSteps) : ~Mapped(i)}
    IN  IF at = {} THEN 0 ELSE CHOOSE i \in at : \A j \in at : i <= j

\* The steps whose iteration has ended.
Completed ==
    IF pc = "composed" THEN Len(ComposeSteps)
    ELSE IF pc \in {"compose", "compose_send", "compose_raised"} THEN compose_i - 1
    ELSE 0

\* The kind of descriptor the action table gives a step.
KindOf(step) ==
    IF step.action \in {W_ARM, W_DISARM, W_SPEED, W_YAW, W_RETURN} THEN "COMMAND_LONG"
    ELSE IF step.action \in {W_TAKEOFF, W_LAND, W_HOLD, W_CIRCLE} THEN "MISSION_ITEM_INT"
    ELSE IF step.action = W_GOTO
    THEN IF K_lat \in DOMAIN step.params /\ K_lon \in DOMAIN step.params THEN "MISSION_ITEM_INT"
         ELSE "UNSUPPORTED"
    ELSE IF step.action = W_FOLLOW
    THEN IF K_target \in DOMAIN step.params THEN "COMMAND_LONG" ELSE "UNSUPPORTED"
    ELSE IF step.action = W_WAIT THEN "WAIT"
    ELSE "UNSUPPORTED"

\* The step is one the composer transmits: a command or a mission item other
\* than FOLLOW's placeholder, of a drone with a connection, with send on.
Transmitted(step) ==
    /\ send
    /\ step.drone \in DOMAIN connections
    /\ KindOf(step) \in {"COMMAND_LONG", "MISSION_ITEM_INT"}
    /\ step.action # W_FOLLOW

\* Whatever identifies its origin in the descriptor md points at step.
BuiltFrom(md, step) ==
    /\ md.type = KindOf(step)
    /\ "sysid" \in DOMAIN md \/ "drone" \in DOMAIN md
    /\ "sysid" \in DOMAIN md => md.sysid = drone_sys_map[step.drone][1]
    /\ "drone" \in DOMAIN md => md.drone = step.drone
    /\ "action" \in DOMAIN md => md.action = step.action
    /\ "state_id" \in DOMAIN md => md.state_id = step.state_id

Counter(c, d) == IF d \in DOMAIN c THEN c[d] ELSE 0

StepDrones == {ComposeSteps[i].drone : i \in 1..Len(ComposeSteps)}

\* The positions, in order, of the mission items built for drone d.
ItemsOf(d) ==
    {i \in 1..Len(generated) : generated[i].type = "MISSION_ITEM_INT" /\ ComposeSteps[i].drone = d}

\* C15: at the first step whose drone the routing map lacks the routing error
\* is raised at once: no descriptor and no transport call for that step or a
\* later one, and the descriptors of the earlier steps are handed to the
\* caller as a partial result.  (Stated as the claim; the code hands the
\* caller the exception only.)
C15_RoutingErrorKeepsPartial ==
    (pc = "compose_raised" /\ exc = RoutingError) =>
        /\ compose_i = FirstUnmapped
        /\ Len(generated) = FirstUnmapped - 1
        /\ Len(mav_calls) <= FirstUnmapped - 1
        /\ returned = generated

\* C16: with send true and connections supplied, a document with a step of
\* an unmapped drone raises the routing error before any transport call,
\* wherever that step stands.  (Stated as the claim; the code transmits the
\* earlier steps first.)
C16_RoutingErrorBeforeAnyCall ==
    (send /\ DOMAIN connections # {} /\ FirstUnmapped # 0) =>
        /\ mav_calls = <<>>
        /\ pc # "composed"

\* C17: a drone's sequence counter changes only when a MISSION_ITEM_INT
\* descriptor is built for that drone, and then by +1: building a
\* COMMAND_LONG, WAIT or UNSUPPORTED descriptor (that of a GOTO without
\* lat/lon too) changes no counter, and no step changes another drone's
\* counter.  (Stated as the claim; the code counts every GOTO.)
C17_CounterOnlyForMissionItems ==
    [][ \A d \in StepDrones \cup DOMAIN seq_counter_per_drone' :
            Counter(seq_counter_per_drone', d) =
                Counter(seq_counter_per_drone, d)
                + (IF /\ Len(generated') = Len(generated) + 1
                      /\ generated'[Len(generated')].type = "MISSION_ITEM_INT"
                      /\ ComposeSteps[compose_i].drone = d
                   THEN 1 ELSE 0) ]_vars

\* C18: the seq values of one drone's mission items, in output order, start
\* at 0 and are strictly increasing, also for a drone the document's drones
\* list leaves out; no two of them are equal.  (Stated as the claim; after a
\* GOTO without lat/lon the drone's next mission item skips a number.)
C18_SeqFromZeroIncreasing ==
    \A d \in StepDrones :
        \A i \in ItemsOf(d) :
            /\ (\A j \in ItemsOf(d) : i <= j) => generated[i].seq = 0
            /\ \A j \in ItemsOf(d) : i < j => generated[i].seq < generated[j].seq

\* C19: every descriptor returned, whatever the action, carries its step's
\* drone id, state_id and control clause.  (Stated as the claim; the
\* descriptors of HOLD, RETURN, CIRCLE, FOLLOW and of an action outside the
\* table lack drone or state_id.)
C19_DescriptorCarriesOrigin ==
    pc = "composed" =>
        \A i \in 1..Len(returned) :
            /\ "drone" \in DOMAIN returned[i] /\ returned[i].drone = ComposeSteps[i].drone
            /\ "state_id" \in DOMAIN returned[i] /\ returned[i].state_id = ComposeSteps[i].state_id
            /\ "control" \in DOMAIN returned[i] /\ returned[i].control = ComposeSteps[i].control

\* C20: one descriptor per step, the i-th built from the i-th step and
\* carrying that step's control clause; the list returned is that list, one
\* entry per step.  The transport calls are those of the transmitted steps in
\* step order, each made after its step's descriptor is built and before the
\* next step's is.
C20_DescriptorsAndCallsInStepOrder ==
    [][ /\ Len(generated') = (IF pc' = "compose_send" THEN Completed' + 1 ELSE Completed')
        /\ \A i \in 1..Len(generated') : BuiltFrom(generated'[i], ComposeSteps[i])
        /\ \A i \in 1..Completed' :
              "control" \in DOMAIN generated'[i] /\ generated'[i].control = ComposeSteps[i].control
        /\ pc' = "composed" => (returned' = generated' /\ Len(returned') = Len(ComposeSteps))
        /\ LET sent == SelectSeq([i \in 1..Completed' |-> i], LAMBDA i : Transmitted(ComposeSteps[i]))
           IN  /\ Len(mav_calls') = Len(sent)
               /\ \A k \in 1..Len(sent) :
                     /\ mav_calls'[k].conn = connections[ComposeSteps[sent[k]].drone]
                     /\ mav_calls'[k].target_system = drone_sys_map[ComposeSteps[sent[k]].drone][1]
                     /\ mav_calls'[k].fn = (IF KindOf(ComposeSteps[sent[k]]) = "COMMAND_LONG"
                                            THEN "command_long_send" ELSE "mission_item_int_send")
        /\ mav_calls' # mav_calls =>
              /\ pc = "compose_send"
              /\ Len(generated') = compose_i /\ Len(generated) = compose_i
              /\ SubSeq(mav_calls', 1, Len(mav_calls)) = mav_calls
        /\ Len(generated') # Len(generated) => (pc = "compose" /\ mav_calls' = mav_calls) ]_vars

C20_Witness ==
    /\ pc = "composed"
    /\ Len(returned) = 2
    /\ ComposeSteps[1].drone = D2 /\ ComposeSteps[1].action = W_HOLD
    /\ ComposeSteps[2].drone = D1 /\ ComposeSteps[2].action = W_GOTO
    /\ returned[1].control.until = <<"r", "e", "a", "d", "y">>
    /\ returned[2].control.after_state = <<"s", "2">>
    /\ Len(mav_calls) = 2
    /\ mav_calls[1].conn = Connection(D2)
    /\ mav_calls[2].conn = Connection(D1)

\* Two numbers of a descriptor or of a transport call are the same number
\* (0 and 0.0 are).
NumEq(a, b) == a.t # "str" /\ b.t # "str" /\ SameNumber(a, b)

\* C21: for a step whose descriptor is a COMMAND_LONG or a MISSION_ITEM_INT,
\* when send is true and the step's drone has a connection, exactly one
\* transport call of the matching kind is made, whose sysid, compid, command,
\* seq, frame and seven parameters equal those of the descriptor.  (Stated as
\* the claim; the code sends HOLD and CIRCLE with frame 0 and z 0 whatever
\* their descriptors hold, and sends nothing for FOLLOW's command.)
C21_CallEqualsDescriptor ==
    [][ (/\ pc = "compose_send"
         /\ send
         /\ ComposeSteps[compose_i].drone \in DOMAIN connections
         /\ generated[compose_i].type \in {"COMMAND_LONG", "MISSION_ITEM_INT"}) =>
            LET md == generated[compose_i]
            IN  /\ Len(mav_calls') = Len(mav_calls) + 1
                /\ LET call == mav_calls'[Len(mav_calls')]
                   IN  /\ call.fn = (IF md.type = "COMMAND_LONG" THEN "command_long_send"
                                     ELSE "mission_item_int_send")
                       /\ call.target_system = md.sysid
                       /\ call.target_component = md.compid
                       /\ call.command = md.command
                       /\ md.type = "MISSION_ITEM_INT" =>
                             (call.seq = md.seq /\ call.frame = md.frame)
                       /\ \A k \in 1..7 : NumEq(call.params[k], md.params[k]) ]_vars

\* C22: no transport call is made for a step when send is false, when no
\* connections are given or when the step's drone has no connection among
\* them; and none is ever made for a step whose descriptor is a WAIT or an
\* unsupported placeholder.
C22_NoCallWithoutTransport ==
    [][ /\ mav_calls' # mav_calls =>
              /\ pc = "compose_send"
              /\ Len(mav_calls') = Len(mav_calls) + 1
              /\ send
              /\ connections # None
              /\ ComposeSteps[compose_i].drone \in DOMAIN connections
              /\ KindOf(ComposeSteps[compose_i]) \notin {"WAIT", "UNSUPPORTED"}
              /\ generated[compose_i].type \notin {"WAIT", "UNSUPPORTED"}
        /\ (~send \/ connections = None) => mav_calls' = <<>> ]_vars

C22_Witness ==
    /\ pc = "composed"
    /\ send
    /\ DOMAIN connections = {D1}
    /\ Len(ComposeSteps) = 2
    /\ ComposeSteps[1].drone = D2 /\ ComposeSteps[1].action = W_DISARM
    /\ ComposeSteps[2].drone = D1 /\ ComposeSteps[2].action = W_WAIT
    /\ returned[1].type = "COMMAND_LONG"
    /\ returned[2].type = "WAIT"
    /\ mav_calls = <<>>

\* C23: the kind of a step's descriptor is fixed by its action: ARM, DISARM,
\* SPEED, YAW and RETURN give a COMMAND_LONG, with first parameter 1 for ARM
\* and 0 for DISARM; TAKEOFF, LAND, HOLD and CIRCLE give a MISSION_ITEM_INT;
\* WAIT gives a WAIT descriptor; an action outside the table gives an
\* UNSUPPORTED descriptor carrying the action's name and the params.
C23_KindByAction ==
    \A i \in 1..Len(generated) :
        LET step == ComposeSteps[i]
            md == generated[i]
        IN  /\ step.action \in {W_ARM, W_DISARM, W_SPEED, W_YAW, W_RETURN} =>
                  md.type = "COMMAND_LONG"
            /\ step.action = W_ARM => NumEq(md.params[1], IntValue(1))
            /\ step.action = W_DISARM => NumEq(md.params[1], IntValue(0))
            /\ step.action \in {W_TAKEOFF, W_LAND, W_HOLD, W_CIRCLE} =>
                  md.type = "MISSION_ITEM_INT"
            /\ step.action = W_WAIT => md.type = "WAIT"
            /\ step.action \in {W_ROTATE, W_MOVE, W_ROI, W_TRIGGER, W_GIMBAL, W_SERVO} =>
                  /\ md.type = "UNSUPPORTED"
                  /\ md.action = step.action
                  /\ md.params = step.params

C23_Witness ==
    /\ pc = "composed"
    /\ Len(ComposeSteps) = 2
    /\ ComposeSteps[1].action = W_DISARM
    /\ ComposeSteps[2].action = W_MOVE
    /\ returned[1].type = "COMMAND_LONG"
    /\ returned[1].params[1] = FloatValue(Dec(0))
    /\ returned[2].type = "UNSUPPORTED"
    /\ returned[2].action = W_MOVE
    /\ returned[2].params = Dict1(K_distance, IntValue(5))

\* C24: a GOTO step gets a MISSION_ITEM_INT descriptor if and only if both
\* lat and lon are among its params, and otherwise an UNSUPPORTED one with
\* the reason "missing lat/lon"; a FOLLOW step gets a COMMAND_LONG descriptor
\* if and only if target is among its params, and otherwise an UNSUPPORTED
\* one with the reason "no target provided".  (Stated as the claim; the
\* code's reason for GOTO reads "Missing lat/lon".)
C24_GotoFollowByParams ==
    \A i \in 1..Len(generated) :
        LET step == ComposeSteps[i]
            md == generated[i]
        IN  /\ step.action = W_GOTO =>
                  IF K_lat \in DOMAIN step.params /\ K_lon \in DOMAIN step.params
                  THEN md.type = "MISSION_ITEM_INT"
                  ELSE md.type = "UNSUPPORTED" /\ md.reason = "missing lat/lon"
            /\ step.action = W_FOLLOW =>
                  IF K_target \in DOMAIN step.params
                  THEN md.type = "COMMAND_LONG"
                  ELSE md.type = "UNSUPPORTED" /\ md.reason = "no target provided"

\* n is int(d * 1e7): the integer next to d * 10^7 on the side of zero.
IsFixedPoint(n, d) ==
    LET scaled == d.m * Pow10(7)
        unit == Pow10(d.f)
    IN  IF d.m >= 0 THEN n * unit <= scaled /\ scaled < (n + 1) * unit
        ELSE n * unit >= scaled /\ scaled > (n - 1) * unit

\* C25: in the mission items of TAKEOFF and of LAND alike the altitude is
\* the step's altitude parameter, else alt, else z, and lat and lon are the
\* supplied values as integers scaled by 1e7, or 0 when not supplied.
\* (Stated as the claim; the code's LAND does not look at z.)
C25_AltitudeAndLatLon ==
    \A i \in 1..Len(generated) :
        LET step == ComposeSteps[i]
            p == step.params
            md == generated[i]
            latlon(n, key) ==
                /\ md.params[n].t = "int"
                /\ IF key \in DOMAIN p THEN IsFixedPoint(md.params[n].m, NumberOf(p[key]))
                   ELSE md.params[n].m = 0
        IN  step.action \in {W_TAKEOFF, W_LAND} =>
                /\ K_altitude \in DOMAIN p => NumEq(md.params[7], p[K_altitude])
                /\ (K_altitude \notin DOMAIN p /\ K_alt \in DOMAIN p) => NumEq(md.params[7], p[K_alt])
                /\ (K_altitude \notin DOMAIN p /\ K_alt \notin DOMAIN p /\ K_z \in DOMAIN p) =>
                      NumEq(md.params[7], p[K_z])
                /\ latlon(5, K_lat)
                /\ latlon(6, K_lon)

\* A descriptor without its control field.
StripControl(md) == [k \in (DOMAIN md) \ {"control"} |-> md[k]]

\* Two documents that differ in their steps' control clauses at most.
DifferInControlOnly(a, b) ==
    /\ a.mission_id = b.mission_id
    /\ a.drones = b.drones
    /\ Len(a.steps) = Len(b.steps)
    /\ \A i \in 1..Len(a.steps) :
          \A k \in {"state_id", "drone", "action", "params", "next"} : a.steps[i][k] = b.steps[i][k]

\* C26: the composer does not interpret control clauses: for two documents
\* that differ only in their steps' control clauses and the same other
\* arguments, the two calls end alike (both return or both raise the same
\* exception), the lists returned are equal in length and, entry by entry,
\* in every field but control (kind, command, parameters, seq), each entry's
\* control being its own step's, and the calls made on the connections are
\* the same in the same order.
C26_ControlNotInterpreted ==
    (earlier_calls # <<>> /\ pc \in {"composed", "compose_raised"}) =>
        LET first == earlier_calls[1]
        IN  DifferInControlOnly(first.mission_json, mission_json) =>
                /\ first.pc = pc
                /\ first.exc = exc
                /\ first.mav_calls = mav_calls
                /\ pc = "composed" =>
                      /\ Len(first.returned) = Len(returned)
                      /\ \A i \in 1..Len(returned) :
                            /\ StripControl(first.returned[i]) = StripControl(returned[i])
                            /\ first.returned[i].control = first.mission_json.steps[i].control
                            /\ returned[i].control = mission_json.steps[i].control

C26_Witness ==
    /\ earlier_calls # <<>>
    /\ pc = "composed"
    /\ Len(returned) = 2
    /\ returned[1].type = "MISSION_ITEM_INT" /\ returned[1].seq = 0
    /\ returned[2].type = "MISSION_ITEM_INT" /\ returned[2].seq = 1
    /\ Len(mav_calls) = 2
    /\ earlier_calls[1].returned[1].control # returned[1].control
    /\ earlier_calls[1].returned[2].control # returned[2].control
    /\ earlier_calls[1].mission_json # mission_json

\* The document is one dsl_to_json returns: its drones list holds the
\* drones of its steps.
ParserShaped ==
    {ComposeSteps[i].drone : i \in 1..Len(ComposeSteps)} =
        {mission_json.drones[i] : i \in 1..Len(mission_json.drones)}

\* C27: with send false the only exception compose_and_send_mavlink raises
\* is the routing error: on a document of dsl_to_json whose drones are all
\* in the routing map the call returns a list, a step that cannot be encoded
\* (unknown action, missing or text-valued parameters) being an UNSUPPORTED
\* descriptor of that list.  (Stated as the claim; float() of a text-valued
\* parameter raises ValueError out of the call.)
C27_OnlyRoutingErrorRaised ==
    (~send /\ ParserShaped) =>
        /\ pc = "compose_raised" => exc = RoutingError
        /\ FirstUnmapped = 0 => pc # "compose_raised"

\* The position after the first k steps of the document, each step moving
\* the position the step before it left, whichever drone it belongs to.
RECURSIVE Trajectory(_)
Trajectory(k) ==
    IF k = 0 THEN <<Zero, Zero, Zero>>
    ELSE Predict(mission_json.steps[k].action, mission_json.steps[k].params, Trajectory(k - 1)).state

\* C28: run_validation keeps one simulated position for the whole document:
\* the position a step starts from is the one the step before it in document
\* order left, whichever drone that step belongs to, and each step is
\* checked against the position so reached.
C28_OnePositionForAllDrones ==
    (pc \in {"validate", "validated", "validate_raised"} /\ step_i >= 1) =>
        /\ current_state = Trajectory(step_i - 1)
        /\ \A k \in 1..(step_i - 1) :
              LET has(check) == [step |-> k, check |-> check] \in Range(all_issues)
                  pos == Trajectory(k)
              IN  /\ has("min_altitude") <=> ZBelow(pos[3], 0)
                  /\ has("max_altitude") <=> ZAbove(pos[3], 120)
                  /\ has("geofence") <=> PlanarBeyond(pos[1], pos[2], 500)

C28_Witness ==
    /\ pc = "validated"
    /\ Len(mission_json.steps) = 2
    /\ mission_json.steps[1].drone = <<"d", "1">> /\ mission_json.steps[1].action = W_GOTO
    /\ mission_json.steps[2].drone = <<"d", "2">> /\ mission_json.steps[2].action = W_HOLD
    /\ current_state = <<Zero, Zero, [m |-> 121, f |-> 0]>>
    /\ all_issues = <<[step |-> 1, check |-> "max_altitude"], [step |-> 2, check |-> "max_altitude"]>>

\* C29: every COMMAND_LONG and every MISSION_ITEM_INT descriptor returned
\* has a params vector of exactly seven numbers and a numeric command code,
\* whatever the action: RETURN, without parameters, and FOLLOW with a target
\* too.  (Stated as the claim; FOLLOW's descriptor holds the step's params
\* dict and a text in place of the command code.)
C29_SevenNumericParams ==
    pc = "composed" =>
        \A i \in 1..Len(returned) :
            returned[i].type \in {"COMMAND_LONG", "MISSION_ITEM_INT"} =>
                /\ returned[i].command.kind = "int"
                /\ DOMAIN returned[i].params = 1..7
                /\ \A k \in 1..7 : returned[i].params[k].t \in {"int", "float"}

----------------------------------------------------------------------------
(* The session's claim, stated from the plans and the user's choices.      *)

\* The positions at which interactive_session has returned or raised.
SessionEnded ==
    {"session_quit", "session_raised", "session_unfixed", "session_unsafe", "session_launched",
     "session_aborted"}

\* The repair calls at the end of the calls made so far.
RECURSIVE TrailingRepairs(_)
TrailingRepairs(calls) ==
    IF calls = <<>> THEN 0
    ELSE IF calls[Len(calls)] # "repair_dsl_with_error" THEN 0
    ELSE 1 + TrailingRepairs(SubSeq(calls, 1, Len(calls) - 1))

\* The plan parses to at least one step.
Parses(plan) == plan.parse = "steps"

\* C30: in interactive_session, whatever the user chooses and the generator
\* answers: the visualizer is launched only on the choice Y, on the document
\* of the current plan, which parsed to at least one step and for which
\* run_validation returned no issue; a plan with issues ends the session
\* without a launch; the report is appended on every validation that passed
\* or failed, and only then; a plan that still fails to parse at the third
\* attempt, after two repair calls, ends the session with nothing validated
\* or launched; and a session that ended does nothing more.
C30_SessionDiscipline ==
    [][ /\ pc \notin SessionEnded
        /\ visualized' # visualized =>
              /\ pc = "session_choice" /\ choice' = "y"
              /\ visualized = <<>> /\ visualized' = <<mission_json>>
              /\ mission_json.dsl = current_dsl /\ mission_json.steps >= 1
              /\ Parses(current_dsl) /\ current_dsl.verdict = "pass"
              /\ validation_calls' = <<mission_json>>
              /\ pc' = "session_launched"
        /\ validation_calls' # validation_calls =>
              /\ pc = "session_choice" /\ choice' = "y"
              /\ validation_calls = <<>> /\ validation_calls' = <<mission_json>>
              /\ mission_json.dsl = current_dsl /\ Parses(current_dsl)
              /\ pc' \in SessionEnded
              /\ current_dsl.verdict = "fail" => (pc' = "session_unsafe" /\ visualized' = <<>>)
              /\ current_dsl.verdict \in {"pass", "fail"} =>
                    (Len(report') = 1 /\ report'[1] = <<"log", current_dsl.text>>)
        /\ report' # report => validation_calls' # validation_calls
        /\ attempt' \in 0..2
        /\ TrailingRepairs(llm_calls') <= 2
        /\ (pc = "session_parse" /\ ~Parses(current_dsl) /\ attempt = 2) =>
              /\ pc' = "session_unfixed"
              /\ TrailingRepairs(llm_calls) = 2 /\ llm_calls' = llm_calls
              /\ validation_calls' = <<>> /\ visualized' = <<>> /\ report' = <<>>
        /\ pc' = "session_unfixed" =>
              (pc = "session_parse" /\ ~Parses(current_dsl) /\ attempt = 2) ]_vars

C30_Witness ==
    /\ pc = "session_launched"
    /\ choice = "y"
    /\ llm_calls = <<"nl_to_dsl", "repair_dsl_with_error", "explain_dsl", "refine_dsl",
                     "repair_dsl_with_error", "repair_dsl_with_error", "explain_dsl">>
    /\ current_dsl = Plan("safe as well", "steps", "pass")
    /\ visualized = <<mission_json>>
    /\ validation_calls = <<mission_json>>
    /\ report = <<<<"log", "safe as well">>>>

====
